---------------------------- MODULE Spec2Model ----------------------------
(***************************************************************************)
(* Model of the crossinfo terminal dashboard (cli/src/main.rs) and of the  *)
(* part of its backend (backend/src/lib.rs) the dashboard drives:          *)
(*   - main: terminal set-up, run_app, terminal restore and the exit code; *)
(*   - run_app: the Welcome loop, the Dashboard loop (draw, sample         *)
(*     recording, event poll) and the key handlers, sort keys included;    *)
(*   - ui / process_tab / cpu_tab / network_tab: what a frame shows and    *)
(*     what drawing it changes (the LATEST_INFO caches of the process and  *)
(*     CPU tabs, kill target latch, kill call);                            *)
(*   - the sort_by calls of process_tab and component_tab;                 *)
(*   - the background network thread, its stop channel and the             *)
(*     NETWORK_INFO mutex;                                                 *)
(*   - the environment: the clock, the processes, the load and the order   *)
(*     of the cores, the memory capacities.                                *)
(* Time is counted in tenths of a second.                                  *)
(***************************************************************************)
EXTENDS Integers, Sequences, FiniteSets, TLC

\* ------------------------------------------------------------------ bounds
\* Number of process identities the operating system may run.
NumPids == 2
\* Model width of current_line (u16 in the source, saturating at u16::MAX).
MaxLine == 2
\* Largest number of network interfaces a network probe reports.
MaxNets == 1
\* Latest instant (tenths of a second) the clock is advanced to.
MaxTime == 11
\* Number of CPU cores the operating system reports.
NumCores == 2
\* Latest instant (tenths of a second) the clock is advanced to in part-interval steps.
MaxFineTime == 12
\* Highest usage (percent) a core's load rises to.
MaxUsage == 30
\* Latest instant (tenths of a second) the clock of the recorder is advanced to.
MaxRecordTime == 24
\* Highest power of 1000 around which total capacities are drawn.
MaxScalePower == 2
\* Longest list handed to a sort, and the number of sorts applied to one list.
MaxSortLen == 3
MaxSorts == 2

\* --------------------------------------------------------------- constants
\* const INTERVAL: Duration = Duration::from_secs(1), in tenths of a second.
INTERVAL == 10
\* backend::Tab::COUNT: the number of variants of enum Tab.
TabCOUNT == 10
\* The last match arm of ui's tab dispatch that renders a tab (7 => Components).
LastRenderedTab == 7
\* Indices of ui's match arms: 1 => cpu_tab, 5 => network_tab, 6 => process_tab.
CpuTab == 1
NetworkTab == 5
ProcessesTab == 6
ComponentsTab == 7

\* ----------------------------------------------------------------- options
None == <<>>
Some(x) == <<x>>
IsSome(o) == o # <<>>
Get(o) == o[1]

Pids == 1..NumPids

\* backend::ProcessInfo of the process with identity p (its name is its pid).
ProcessInfo(p) ==
    [pid |-> p, cpu_usage |-> p, memory_usage |-> NumPids - p,
     swap_usage |-> 0, run_time |-> p % 2]

\* The process lists the operating system may be running at start.
RECURSIVE SeqOfSet(_)
SeqOfSet(S) ==
    IF S = {} THEN <<>>
    ELSE LET m == CHOOSE x \in S : \A y \in S : x <= y
         IN <<m>> \o SeqOfSet(S \ {m})

RunningLists == { [i \in 1..Len(SeqOfSet(S)) |-> ProcessInfo(SeqOfSet(S)[i])] : S \in SUBSET Pids }

SortKeys == {"c", "C", "m", "M", "s", "S", "r", "R", "t", "T"}

Events == {"q", "Esc", "Enter", "k", "i", "x", "y", "n", "Up", "Down", "Left",
           "Right", "ScrollUp", "ScrollDown", "Shift", "Other", "NoEvent"} \cup SortKeys

\* backend::CpuInfo of core c; Hash and PartialEq read model and manufacturer only.
CpuInfo(c) == [model |-> c, manufacturer |-> 1, usage |-> 10 * c]
CpuKey(core) == <<core.model, core.manufacturer>>
CoreList == [c \in 1..NumCores |-> CpuInfo(c)]

\* backend::MemoryInfo the operating system reports.
MemoryInfo == [total_memory |-> 16000, used_memory |-> 4000, total_swap |-> 0, used_swap |-> 0]

\* Total capacities (total_memory, total_swap) a machine may report: none, and
\* the capacities next to a power of 1000.
RECURSIVE Power1000(_)
Power1000(k) == IF k = 0 THEN 1 ELSE 1000 * Power1000(k - 1)

Capacities == {0} \cup { Power1000(k) + d : k \in 1..MaxScalePower, d \in {-1, 0, 1} }

\* backend::MemoryInfo of a machine with the given totals, a quarter of each in use.
MemoryInfos ==
    { [total_memory |-> ram, used_memory |-> ram \div 4, total_swap |-> swap, used_swap |-> swap \div 4] :
        ram \in Capacities, swap \in Capacities }

PopupKinds == {"KillProcess", "MoreInformation", "NoSelected"}

VARIABLES
    \* ---- run_app's control state
    mainPc,               \* "startup" | "welcome" | "draw" | "record" | "poll" | "join" |
                          \* "returned" | "panicked" | "exited"
    exit_code,            \* main's result once it has returned: 0 for Ok(()), 1 for Err
    screen,               \* "Welcome" | "Dashboard"
    \* ---- AppState
    current_line,
    current_tab,
    process_ordering,
    component_ordering,   \* AppState::component_ordering
    kill_current_process,
    more_information,
    process_to_kill,      \* Option<pid>
    confirm_kill,         \* Option<BOOLEAN>
    shift_pressed,
    starting_time,
    ram_important_digits, \* Option<number>
    swap_important_digits,
    cpu_dataset,          \* CpuKey -> sequence of <<elapsed, value>>
    ram_dataset,
    swap_dataset,
    latest_update,        \* run_app's local: the instant of the last recording
    \* ---- process_tab's static LATEST_INFO: (Option<Vec<ProcessInfo>>, Option<Instant>)
    proc_info,
    proc_at,
    \* ---- cpu_tab's static LATEST_INFO: (Option<Vec<CpuInfo>>, Option<Instant>)
    cpu_info,
    cpu_at,
    \* ---- the background thread, the stop channel, NETWORK_INFO and its mutex
    bgPc,                 \* "check" | "probe" | "lock" | "store" | "stopped"
    chan,                 \* number of stop messages in the channel
    network_info_temp,
    NETWORK_INFO,         \* Option<number of interfaces>
    lockOwner,            \* "free" | "bg"
    published,            \* the last snapshot the thread stored, None before the first
    late_stores,          \* snapshots the thread stored after the stop message was sent
    \* ---- the environment
    now,                  \* the clock
    supported,            \* sysinfo::IS_SUPPORTED_SYSTEM
    running,              \* the processes the operating system runs
    cores,                \* the CPU cores the operating system reports
    memory,               \* the memory figures the operating system reports
    \* ---- observation
    frame,                \* the last frame handed to the renderer
    lastEvent,            \* the event handled since the last frame ("NoEvent" if none)
    popup_kills,          \* kill_process calls since a ConfirmKill popup was last entered
    dismissed,            \* a dismiss key was handled and no trigger key since
    denied,               \* the ConfirmKill popup last entered was resolved by a deny key
    \* ---- a list under the sortable view
    sort_kind,            \* "processes" | "components"
    sort_input,           \* the list as the probe returned it
    sort_list,            \* the list as the view holds it now
    sort_prev,            \* the list the view held before the last sort
    sort_applied          \* the orderings applied so far, oldest first

uiVars == <<current_line, current_tab, process_ordering, component_ordering,
            kill_current_process,
            more_information, process_to_kill, confirm_kill, shift_pressed>>
seriesVars == <<starting_time, ram_important_digits, swap_important_digits, cpu_dataset,
                ram_dataset, swap_dataset, latest_update>>
appVars == <<uiVars, seriesVars>>
cacheVars == <<proc_info, proc_at, cpu_info, cpu_at>>
bgVars == <<bgPc, network_info_temp, NETWORK_INFO, lockOwner, published, late_stores>>
envVars == <<now, supported, running, cores, memory>>
obsVars == <<frame, popup_kills, dismissed, denied>>

sortVars == <<sort_kind, sort_input, sort_list, sort_prev, sort_applied>>

vars == <<mainPc, screen, appVars, cacheVars, bgVars, chan, envVars, obsVars, lastEvent,
          sortVars, exit_code>>

\* What a frame shows of the network slot when it is not a frame of the Networks tab.
NoNetwork == [loading |-> FALSE, info |-> None]

NoFrame == [tab |-> -1, popups |-> {}, target |-> None, killed |-> None, result |-> None,
            net |-> NoNetwork, at |-> 0, probed |-> {}]

\* ------------------------------------------------------------ the platform probe
\* Manager::process_information.
process_information == IF supported THEN Some(running) ELSE None

\* Manager::cpu_information.
cpu_information == IF supported THEN Some(cores) ELSE None

\* Manager::memory_information.
memory_information == IF supported THEN Some(memory) ELSE None

\* Manager::kill_process: the processes left running after the call. The manager
\* finds the pid only among the processes of its last refresh.
kill_process(pid, known) ==
    IF supported /\ pid \in known
    THEN SelectSeq(running, LAMBDA p : p.pid # pid)
    ELSE running

\* Manager::kill_process: the boolean it returns. Process::kill succeeds on a
\* process the manager knows that is still running.
kill_result(pid, known) ==
    supported /\ pid \in known /\ \E i \in 1..Len(running) : running[i].pid = pid

\* The axis scale of run_app's start: total capacity divided by 1000 while the
\* quotient is above 1000, then floored (denom is the divisor reached so far).
RECURSIVE ImportantDigits(_, _)
ImportantDigits(total, denom) ==
    IF total > 1000 * denom THEN ImportantDigits(total, 1000 * denom)
    ELSE total \div denom

\* The state run_app builds before its first loop, on a machine whose memory
\* figures are mem.
AppFieldsOf(mem) ==
    /\ screen = "Welcome"
    /\ current_line = 0
    /\ current_tab = 0
    /\ process_ordering = [field |-> "CpuUsage", ord |-> "Descending"]
    /\ component_ordering = [field |-> "Temperature", ord |-> "Descending"]
    /\ kill_current_process = FALSE
    /\ more_information = FALSE
    /\ process_to_kill = None
    /\ confirm_kill = None
    /\ shift_pressed = FALSE
    /\ now = 0
    /\ supported \in BOOLEAN
    /\ running \in (IF supported THEN RunningLists ELSE {<<>>})
    /\ cores = CoreList
    /\ memory = mem
    /\ starting_time = now
    /\ latest_update = now
    /\ ram_important_digits =
          IF supported THEN Some(ImportantDigits(memory.total_memory, 1)) ELSE None
    /\ swap_important_digits =
          IF supported THEN Some(ImportantDigits(memory.total_swap, 1)) ELSE None
    /\ cpu_dataset = <<>>
    /\ ram_dataset = <<>>
    /\ swap_dataset = <<>>
    /\ proc_info = None
    /\ proc_at = None
    /\ cpu_info = None
    /\ cpu_at = None
    /\ chan = 0
    /\ network_info_temp = None
    /\ NETWORK_INFO = None
    /\ lockOwner = "free"
    /\ published = None
    /\ late_stores = 0
    /\ frame = NoFrame
    /\ lastEvent = "NoEvent"
    /\ popup_kills = 0
    /\ dismissed = FALSE
    /\ denied = FALSE
    /\ exit_code = None

\* The state run_app builds before its first loop.
AppFields == AppFieldsOf(MemoryInfo)

\* run_app in its Welcome loop, the background thread spawned.
AppInit == mainPc = "welcome" /\ bgPc = "check" /\ AppFields

\* No list has been handed to the sortable view.
SortIdle ==
    /\ sort_kind = "processes"
    /\ sort_input = <<>>
    /\ sort_list = <<>>
    /\ sort_prev = <<>>
    /\ sort_applied = <<>>

Init == AppInit /\ SortIdle

\* ------------------------------------------------------------ the sortable view
\* partial_cmp(..).unwrap() on two numbers.
Compare(a, b) == IF a < b THEN "Less" ELSE IF a = b THEN "Equal" ELSE "Greater"

\* Ordering::sort_by: the comparator of a direction.
sort_by(ord, a, b) == IF ord = "Ascending" THEN Compare(a, b) ELSE Compare(b, a)

\* process_tab's sort_fn: the comparator of a SortByProcess.
process_sort_fn(ordering, a, b) ==
    CASE ordering.field = "CpuUsage"    -> sort_by(ordering.ord, a.cpu_usage, b.cpu_usage)
      [] ordering.field = "MemoryUsage" -> sort_by(ordering.ord, a.memory_usage, b.memory_usage)
      [] ordering.field = "SwapUsage"   -> sort_by(ordering.ord, a.swap_usage, b.swap_usage)
      [] ordering.field = "Runtime"     -> sort_by(ordering.ord, a.run_time, b.run_time)

\* An insertion that puts x before the first element not less than it.
InsertProcessUnstable(sorted, x, ordering) ==
    LET notless == { i \in 1..Len(sorted) : process_sort_fn(ordering, sorted[i], x) # "Less" }
        at == IF notless = {} THEN Len(sorted) + 1
              ELSE CHOOSE i \in notless : \A j \in notless : i <= j
    IN SubSeq(sorted, 1, at - 1) \o <<x>> \o SubSeq(sorted, at, Len(sorted))

\* One insertion of a stable sort: x goes before the first element greater than it.
InsertProcess(sorted, x, ordering) ==
    LET greater == { i \in 1..Len(sorted) : process_sort_fn(ordering, sorted[i], x) = "Greater" }
        at == IF greater = {} THEN Len(sorted) + 1
              ELSE CHOOSE i \in greater : \A j \in greater : i <= j
    IN SubSeq(sorted, 1, at - 1) \o <<x>> \o SubSeq(sorted, at, Len(sorted))

\* slice::sort_by (a stable sort) of a process list under process_sort_fn.
RECURSIVE SortProcessesFrom(_, _, _, _)
SortProcessesFrom(list, i, sorted, ordering) ==
    IF i > Len(list) THEN sorted
    ELSE SortProcessesFrom(list, i + 1, InsertProcess(sorted, list[i], ordering), ordering)

SortProcesses(list, ordering) == SortProcessesFrom(list, 1, <<>>, ordering)

\* critical_temperature.unwrap_or(0.0)
CriticalOrZero(c) == IF IsSome(c.critical_temperature) THEN Get(c.critical_temperature) ELSE 0

\* An absent critical temperature compared as the highest value instead of 0.
component_sort_fn_absent_last(ordering, a, b) ==
    LET crit(c) == IF IsSome(c.critical_temperature) THEN Get(c.critical_temperature) ELSE 1000
    IN CASE ordering.field = "Temperature" -> sort_by(ordering.ord, a.temperature, b.temperature)
         [] ordering.field = "Critical"    -> sort_by(ordering.ord, crit(a), crit(b))

\* component_tab's sort_fn: the comparator of a SortByComponent.
component_sort_fn(ordering, a, b) ==
    CASE ordering.field = "Temperature" -> sort_by(ordering.ord, a.temperature, b.temperature)
      [] ordering.field = "Critical"    -> sort_by(ordering.ord, CriticalOrZero(a), CriticalOrZero(b))

InsertComponent(sorted, x, ordering) ==
    LET greater == { i \in 1..Len(sorted) : component_sort_fn(ordering, sorted[i], x) = "Greater" }
        at == IF greater = {} THEN Len(sorted) + 1
              ELSE CHOOSE i \in greater : \A j \in greater : i <= j
    IN SubSeq(sorted, 1, at - 1) \o <<x>> \o SubSeq(sorted, at, Len(sorted))

\* slice::sort_by (a stable sort) of a component list under component_sort_fn.
RECURSIVE SortComponentsFrom(_, _, _, _)
SortComponentsFrom(list, i, sorted, ordering) ==
    IF i > Len(list) THEN sorted
    ELSE SortComponentsFrom(list, i + 1, InsertComponent(sorted, list[i], ordering), ordering)

SortComponents(list, ordering) == SortComponentsFrom(list, 1, <<>>, ordering)

\* ---- lists handed to the sortable view
Directions == {"Ascending", "Descending"}
ProcessOrderings ==
    [field : {"CpuUsage", "MemoryUsage", "SwapUsage", "Runtime"}, ord : Directions]
ComponentOrderings == [field : {"Temperature", "Critical"}, ord : Directions]

\* The i-th process of a probed list whose load figure is k: CPU usage k, memory
\* usage shared by neighbouring figures, no swap, run time alternating.
ProbedProcess(i, k) ==
    [pid |-> i, cpu_usage |-> k, memory_usage |-> k \div 2, swap_usage |-> 0, run_time |-> k % 2]

ProcessLists ==
    UNION { { [i \in 1..n |-> ProbedProcess(i, k[i])] : k \in [1..n -> 0..2] } : n \in 0..MaxSortLen }

\* backend::ComponentInfo readings: two with the same temperature, one with an
\* absent critical temperature and one whose critical temperature is 0.
ComponentCatalogue ==
    { [name |-> "CPU0", temperature |-> 40, critical_temperature |-> Some(90)],
      [name |-> "CPU1", temperature |-> 85, critical_temperature |-> None],
      [name |-> "GPU",  temperature |-> 40, critical_temperature |-> Some(0)] }

ComponentLists ==
    { l \in UNION { [1..n -> ComponentCatalogue] : n \in 0..MaxSortLen } :
        \A i, j \in 1..Len(l) : i # j => l[i] # l[j] }

\* A list has come back from a probe and no sort has been applied to it yet.
SortInit ==
    /\ AppInit
    /\ \/ sort_kind = "processes" /\ sort_input \in ProcessLists
       \/ sort_kind = "components" /\ sort_input \in ComponentLists
    /\ sort_list = sort_input
    /\ sort_prev = sort_input
    /\ sort_applied = <<>>

sortOnly == <<mainPc, screen, appVars, cacheVars, bgVars, chan, envVars, obsVars, lastEvent,
              sort_kind, sort_input, exit_code>>

\* process_tab under an ordering: the cached list is sorted in place.
SortProcessList ==
    /\ sort_kind = "processes"
    /\ Len(sort_applied) < MaxSorts
    /\ \E ordering \in ProcessOrderings :
          /\ sort_list' = SortProcesses(sort_list, ordering)
          /\ sort_applied' = Append(sort_applied, ordering)
    /\ sort_prev' = sort_list
    /\ UNCHANGED sortOnly

\* component_tab under an ordering: the list the probe returns is sorted anew.
SortComponentList ==
    /\ sort_kind = "components"
    /\ Len(sort_applied) < MaxSorts
    /\ \E ordering \in ComponentOrderings :
          /\ sort_list' = SortComponents(sort_input, ordering)
          /\ sort_applied' = Append(sort_applied, ordering)
    /\ sort_prev' = sort_list
    /\ UNCHANGED sortOnly

SortNext == SortProcessList \/ SortComponentList

SortSpec == SortInit /\ [][SortNext]_vars

\* --------------------------------------------------------------- process_tab
\* The refresh test with >= in place of >.
ProcessCacheStaleAtInterval == proc_at = None \/ now - Get(proc_at) >= INTERVAL

\* The LATEST_INFO cache after process_tab's refresh test.
ProcessCacheStale == proc_at = None \/ now - Get(proc_at) > INTERVAL

ProcessTabFetched == IF ProcessCacheStale THEN process_information ELSE proc_info
ProcessTabFetchedAt == IF ProcessCacheStale THEN Some(now) ELSE proc_at

\* The cache as process_tab leaves it: a present, non-empty list is sorted in place.
ProcessTabInfo ==
    LET info == ProcessTabFetched
    IN IF IsSome(info) /\ Len(Get(info)) > 0
       THEN Some(SortProcesses(Get(info), process_ordering))
       ELSE info

\* selected_process: the entry of the sorted list at current_line, if any.
SelectedProcess ==
    LET info == ProcessTabInfo
    IN IF IsSome(info) /\ current_line + 1 <= Len(Get(info))
       THEN Some(Get(info)[current_line + 1])
       ELSE None

\* process_tab with the else between its two popup branches lost: a kill request
\* and an information request both produce their popup.
ProcessPopupsBoth ==
    LET info == ProcessTabInfo
        sel == SelectedProcess
        popup(kind) == IF IsSome(sel) THEN [kind |-> kind, pid |-> Get(sel).pid]
                                      ELSE [kind |-> "NoSelected", pid |-> 0]
    IN IF IsSome(info) /\ Len(Get(info)) > 0
       THEN (IF kill_current_process THEN { popup("KillProcess") } ELSE {})
            \cup (IF more_information THEN { popup("MoreInformation") } ELSE {})
       ELSE {}

\* The popups process_tab returns, as a set of [kind, pid].
ProcessPopups ==
    LET info == ProcessTabInfo
        sel == SelectedProcess
    IN IF IsSome(info) /\ Len(Get(info)) > 0
       THEN IF kill_current_process
            THEN { IF IsSome(sel) THEN [kind |-> "KillProcess", pid |-> Get(sel).pid]
                                  ELSE [kind |-> "NoSelected", pid |-> 0] }
            ELSE IF more_information
            THEN { IF IsSome(sel) THEN [kind |-> "MoreInformation", pid |-> Get(sel).pid]
                                  ELSE [kind |-> "NoSelected", pid |-> 0] }
            ELSE {}
       ELSE {}

\* --------------------------------------------------------------- network_tab
\* The popup network_tab returns (res.3): shown whenever more_info is set.
NetworkPopups == IF more_information THEN {"MoreInformation"} ELSE {}

\* ------------------------------------------------------------------------ ui
\* A target that is taken anew from the popup of every frame.
LatchedTargetFollowsCursor ==
    LET kills == { p \in ProcessPopups : p.kind = "KillProcess" }
    IN IF kills # {}
       THEN Some((CHOOSE p \in kills : TRUE).pid)
       ELSE process_to_kill

\* ProcessPopup::KillProcess arm: the target is latched only if none is latched.
LatchedTarget ==
    LET kills == { p \in ProcessPopups : p.kind = "KillProcess" }
    IN IF kills # {} /\ process_to_kill = None
       THEN Some((CHOOSE p \in kills : TRUE).pid)
       ELSE process_to_kill

\* if app_state.confirm_kill.is_some_and(|x| x)
KillConfirmed == confirm_kill = Some(TRUE)

\* .expect("Pid should be set at this point. Report") on an empty target.
KillPanics == KillConfirmed /\ LatchedTarget = None

KnownPids == IF IsSome(ProcessTabInfo)
             THEN { Get(ProcessTabInfo)[i].pid : i \in 1..Len(Get(ProcessTabInfo)) }
             ELSE {}

\* The Processes arm keeping the target of a kill that returned false, to try again.
DrawProcessesRetriesFailedKill ==
    LET popups == { p.kind : p \in ProcessPopups }
        killed == IF KillConfirmed /\ ~KillPanics THEN LatchedTarget ELSE None
        enters == "KillProcess" \in popups /\ "KillProcess" \notin frame.popups
    IN /\ proc_info' = ProcessTabInfo
       /\ proc_at' = ProcessTabFetchedAt
       /\ process_to_kill' = IF KillConfirmed /\ ~KillPanics /\ kill_result(Get(killed), KnownPids)
                           THEN None ELSE LatchedTarget
       /\ running' = IF IsSome(killed) THEN kill_process(Get(killed), KnownPids) ELSE running
       /\ frame' = [tab |-> current_tab, popups |-> popups,
                    target |-> IF "KillProcess" \in popups THEN LatchedTarget ELSE None,
                    killed |-> killed,
                    result |-> IF IsSome(killed)
                               THEN Some(kill_result(Get(killed), KnownPids)) ELSE None,
                    net |-> NoNetwork, at |-> now,
                    probed |-> IF ProcessCacheStale THEN {"processes"} ELSE {}]
       /\ denied' = IF enters THEN FALSE ELSE denied
       /\ popup_kills' = IF enters THEN 0
                         ELSE IF IsSome(killed) THEN (IF popup_kills < 2 THEN popup_kills + 1 ELSE 2)
                         ELSE popup_kills
       /\ mainPc' = IF KillPanics THEN "panicked" ELSE "record"
       /\ confirm_kill' = IF KillPanics THEN confirm_kill ELSE None
       /\ shift_pressed' = IF KillPanics THEN shift_pressed ELSE FALSE
       /\ lastEvent' = IF KillPanics THEN lastEvent ELSE "NoEvent"
       /\ UNCHANGED <<cpu_info, cpu_at, NETWORK_INFO, lockOwner>>

\* The Processes arm of ui (6 =>).
DrawProcesses ==
    LET popups == { p.kind : p \in ProcessPopups }
        killed == IF KillConfirmed /\ ~KillPanics THEN LatchedTarget ELSE None
        enters == "KillProcess" \in popups /\ "KillProcess" \notin frame.popups
    IN /\ proc_info' = ProcessTabInfo
       /\ proc_at' = ProcessTabFetchedAt
       /\ process_to_kill' = IF KillConfirmed /\ ~KillPanics THEN None ELSE LatchedTarget
       /\ running' = IF IsSome(killed) THEN kill_process(Get(killed), KnownPids) ELSE running
       /\ frame' = [tab |-> current_tab, popups |-> popups,
                    target |-> IF "KillProcess" \in popups THEN LatchedTarget ELSE None,
                    killed |-> killed,
                    result |-> IF IsSome(killed)
                               THEN Some(kill_result(Get(killed), KnownPids)) ELSE None,
                    net |-> NoNetwork, at |-> now,
                    probed |-> IF ProcessCacheStale THEN {"processes"} ELSE {}]
       /\ denied' = IF enters THEN FALSE ELSE denied
       /\ popup_kills' = IF enters THEN 0
                         ELSE IF IsSome(killed) THEN (IF popup_kills < 2 THEN popup_kills + 1 ELSE 2)
                         ELSE popup_kills
       /\ mainPc' = IF KillPanics THEN "panicked" ELSE "record"
       /\ confirm_kill' = IF KillPanics THEN confirm_kill ELSE None
       /\ shift_pressed' = IF KillPanics THEN shift_pressed ELSE FALSE
       /\ lastEvent' = IF KillPanics THEN lastEvent ELSE "NoEvent"
       /\ UNCHANGED <<cpu_info, cpu_at, NETWORK_INFO, lockOwner>>

\* What network_tab renders: "Loading..." while the slot holds None, else the
\* contents of the slot.
NetworkShown == [loading |-> ~IsSome(NETWORK_INFO), info |-> NETWORK_INFO]

\* network_tab reading the slot with take() in place of clone().
DrawNetworksTakes ==
    /\ lockOwner = "free"
    /\ frame' = [tab |-> current_tab, popups |-> NetworkPopups, target |-> None, killed |-> None, result |-> None,
                 net |-> NetworkShown, at |-> now, probed |-> {}]
    /\ NETWORK_INFO' = None
    /\ mainPc' = "record"
    /\ confirm_kill' = None
    /\ shift_pressed' = FALSE
    /\ lastEvent' = "NoEvent"
    /\ UNCHANGED <<proc_info, proc_at, cpu_info, cpu_at, process_to_kill, running,
                   popup_kills, denied, lockOwner>>

\* The Networks arm of ui (5 =>): network_tab locks NETWORK_INFO to read it.
DrawNetworks ==
    /\ lockOwner = "free"
    /\ frame' = [tab |-> current_tab, popups |-> NetworkPopups, target |-> None, killed |-> None, result |-> None,
                 net |-> NetworkShown, at |-> now, probed |-> {}]
    /\ mainPc' = "record"
    /\ confirm_kill' = None
    /\ shift_pressed' = FALSE
    /\ lastEvent' = "NoEvent"
    /\ UNCHANGED <<proc_info, proc_at, cpu_info, cpu_at, process_to_kill, running,
                   popup_kills, denied, NETWORK_INFO, lockOwner>>

\* The LATEST_INFO cache of cpu_tab after its refresh test.
CpuCacheStale == cpu_at = None \/ now - Get(cpu_at) > INTERVAL

CpuTabFetched == IF CpuCacheStale THEN cpu_information ELSE cpu_info
CpuTabFetchedAt == IF CpuCacheStale THEN Some(now) ELSE cpu_at

\* cpu_tab indexes cpu_dataset by each core of the cached list (a missing key
\* panics), and ui divides 100 by the number of widgets cpu_tab returns, one per
\* manufacturer of a present list (none for an empty list).
CpuTabPanics ==
    LET info == CpuTabFetched
    IN IsSome(info) /\ \/ Get(info) = <<>>
                       \/ \E i \in 1..Len(Get(info)) : CpuKey(Get(info)[i]) \notin DOMAIN cpu_dataset

\* The CPU arm of ui (1 =>).
DrawCpu ==
    /\ cpu_info' = CpuTabFetched
    /\ cpu_at' = CpuTabFetchedAt
    /\ IF CpuTabPanics
       THEN /\ mainPc' = "panicked"
            /\ UNCHANGED <<frame, confirm_kill, shift_pressed, lastEvent>>
       ELSE /\ frame' = [tab |-> current_tab, popups |-> {}, target |-> None, killed |-> None, result |-> None,
                         net |-> NoNetwork, at |-> now,
                         probed |-> IF CpuCacheStale THEN {"cpu"} ELSE {}]
            /\ mainPc' = "record"
            /\ confirm_kill' = None
            /\ shift_pressed' = FALSE
            /\ lastEvent' = "NoEvent"
    /\ UNCHANGED <<proc_info, proc_at, process_to_kill, running, popup_kills, denied,
                   NETWORK_INFO, lockOwner>>

\* The probe each of system_tab, memory_tab, disk_tab, battery_tab and
\* component_tab calls whenever it is drawn.
PlainProbes(tab) ==
    CASE tab = 0 -> {"system"}
      [] tab = 2 -> {"memory"}
      [] tab = 3 -> {"disks"}
      [] tab = 4 -> {"batteries"}
      [] tab = 7 -> {"components"}
      [] OTHER -> {}

\* The arms of ui that show no popup and keep no cache (0 | 2 | 3 | 4 | 7 =>).
DrawPlain ==
    /\ frame' = [tab |-> current_tab, popups |-> {}, target |-> None, killed |-> None, result |-> None,
                 net |-> NoNetwork, at |-> now, probed |-> PlainProbes(current_tab)]
    /\ mainPc' = "record"
    /\ confirm_kill' = None
    /\ shift_pressed' = FALSE
    /\ lastEvent' = "NoEvent"
    /\ UNCHANGED <<proc_info, proc_at, cpu_info, cpu_at, process_to_kill, running,
                   popup_kills, denied, NETWORK_INFO, lockOwner>>

\* _ => unreachable!()
DrawUnreachable ==
    /\ mainPc' = "panicked"
    /\ UNCHANGED <<frame, lastEvent, confirm_kill, shift_pressed, proc_info, proc_at,
                   cpu_info, cpu_at, process_to_kill, running, popup_kills, denied,
                   NETWORK_INFO, lockOwner>>

\* A draw that resets the orderings along with confirm_kill and shift_pressed.
DrawResetsOrdering ==
    /\ mainPc = "draw"
    /\ IF current_tab > LastRenderedTab THEN DrawUnreachable
       ELSE IF current_tab = ProcessesTab THEN DrawProcesses
       ELSE IF current_tab = NetworkTab THEN DrawNetworks
       ELSE IF current_tab = CpuTab THEN DrawCpu
       ELSE DrawPlain
    /\ process_ordering' = [field |-> "CpuUsage", ord |-> "Descending"]
    /\ component_ordering' = [field |-> "Temperature", ord |-> "Descending"]
    /\ UNCHANGED <<screen, current_line, current_tab, kill_current_process,
                   more_information, seriesVars, bgPc, chan, network_info_temp, published, late_stores,
                   now, supported, cores, memory, dismissed, sortVars, exit_code>>

\* terminal.draw(|f| ui(f, &mut app_state)); confirm_kill = None; shift_pressed = false
Draw ==
    /\ mainPc = "draw"
    /\ IF current_tab > LastRenderedTab THEN DrawUnreachable
       ELSE IF current_tab = ProcessesTab THEN DrawProcesses
       ELSE IF current_tab = NetworkTab THEN DrawNetworks
       ELSE IF current_tab = CpuTab THEN DrawCpu
       ELSE DrawPlain
    /\ UNCHANGED <<screen, current_line, current_tab, process_ordering, component_ordering, kill_current_process,
                   more_information, seriesVars, bgPc, chan, network_info_temp, published, late_stores,
                   now, supported, cores, memory, dismissed, sortVars, exit_code>>

\* --------------------------------------------------------- sample recording
\* A sample scaled by the digits of the total just probed.
MemorySampleRescaled(used, total, digits) ==
    IF total = 0 THEN <<0, 1>> ELSE <<used * ImportantDigits(total, 1), total>>

\* The value pushed to ram_dataset / swap_dataset: 0.0 for a zero total, else
\* (used / total) * digits, kept as the exact fraction <<numerator, denominator>>.
MemorySample(used, total, digits) ==
    IF total = 0 THEN <<0, 1>> ELSE <<used * Get(digits), total>>

\* for cpu_core in cpu_info { cpu_dataset.insert(key, vec![(elapsed, usage)]) }
RECURSIVE InsertCores(_, _, _, _)
InsertCores(ds, list, i, elapsed) ==
    IF i > Len(list) THEN ds
    ELSE InsertCores([k \in DOMAIN ds \cup {CpuKey(list[i])} |->
                         IF k = CpuKey(list[i]) THEN << <<elapsed, list[i].usage>> >> ELSE ds[k]],
                     list, i + 1, elapsed)

\* The pushes made at the front of each series.
RECURSIVE PushCoresPrepends(_, _, _, _)
PushCoresPrepends(ds, list, i, elapsed) ==
    IF i > Len(list) THEN [ds |-> ds, panic |-> FALSE]
    ELSE IF CpuKey(list[i]) \notin DOMAIN ds THEN [ds |-> ds, panic |-> TRUE]
    ELSE PushCoresPrepends([ds EXCEPT ![CpuKey(list[i])] = << <<elapsed, list[i].usage>> >> \o @],
                           list, i + 1, elapsed)

\* The pushes made into series that keep their two latest samples only.
RECURSIVE PushCoresEvicts(_, _, _, _)
PushCoresEvicts(ds, list, i, elapsed) ==
    IF i > Len(list) THEN [ds |-> ds, panic |-> FALSE]
    ELSE IF CpuKey(list[i]) \notin DOMAIN ds THEN [ds |-> ds, panic |-> TRUE]
    ELSE PushCoresEvicts([ds EXCEPT ![CpuKey(list[i])] =
                             IF Len(@) >= 2 THEN Tail(@) \o << <<elapsed, list[i].usage>> >>
                             ELSE Append(@, <<elapsed, list[i].usage>>)],
                         list, i + 1, elapsed)

\* The pushes made by position: the i-th value of the probe goes to the series
\* of the core that came i-th when the series were created.
RECURSIVE PushCoresByPosition(_, _, _, _)
PushCoresByPosition(ds, list, i, elapsed) ==
    IF i > Len(list) THEN [ds |-> ds, panic |-> FALSE]
    ELSE IF CpuKey(CoreList[i]) \notin DOMAIN ds THEN [ds |-> ds, panic |-> TRUE]
    ELSE PushCoresByPosition([ds EXCEPT ![CpuKey(CoreList[i])] = Append(@, <<elapsed, list[i].usage>>)],
                             list, i + 1, elapsed)

\* for cpu_core in cpu_info { cpu_dataset.get_mut(&cpu_core).expect(..).push(..) }:
\* the pushes made, and whether the expect panicked on a core with no series.
RECURSIVE PushCores(_, _, _, _)
PushCores(ds, list, i, elapsed) ==
    IF i > Len(list) THEN [ds |-> ds, panic |-> FALSE]
    ELSE IF CpuKey(list[i]) \notin DOMAIN ds THEN [ds |-> ds, panic |-> TRUE]
    ELSE PushCores([ds EXCEPT ![CpuKey(list[i])] = Append(@, <<elapsed, list[i].usage>>)],
                   list, i + 1, elapsed)

\* Whether a recording step whose series are not empty appends: the interval test.
RecordDue == now - latest_update > INTERVAL

\* A recording whose first step gives the RAM and swap series their first sample
\* along with the cores' series.
RecordSamplesMemoryAtOnce ==
    /\ mainPc = "record"
    /\ LET elapsed == now - starting_time
           cpu == cpu_information
           mem == memory_information
       IN IF IsSome(cpu) /\ IsSome(mem)
          THEN IF DOMAIN cpu_dataset = {}
               THEN /\ latest_update' = now
                    /\ cpu_dataset' = InsertCores(cpu_dataset, Get(cpu), 1, elapsed)
                    /\ ram_dataset' = Append(ram_dataset,
                          <<elapsed, MemorySample(Get(mem).used_memory,
                                       Get(mem).total_memory, ram_important_digits)>>)
                    /\ swap_dataset' = Append(swap_dataset,
                          <<elapsed, MemorySample(Get(mem).used_swap,
                                       Get(mem).total_swap, swap_important_digits)>>)
                    /\ mainPc' = "poll"
               ELSE IF RecordDue
               THEN LET pushed == PushCores(cpu_dataset, Get(cpu), 1, elapsed)
                    IN /\ latest_update' = now
                       /\ cpu_dataset' = pushed.ds
                       /\ IF pushed.panic
                          THEN /\ UNCHANGED <<ram_dataset, swap_dataset>>
                               /\ mainPc' = "panicked"
                          ELSE /\ ram_dataset' = Append(ram_dataset,
                                     <<elapsed, MemorySample(Get(mem).used_memory,
                                                  Get(mem).total_memory, ram_important_digits)>>)
                               /\ swap_dataset' = Append(swap_dataset,
                                     <<elapsed, MemorySample(Get(mem).used_swap,
                                                  Get(mem).total_swap, swap_important_digits)>>)
                               /\ mainPc' = "poll"
               ELSE /\ UNCHANGED <<latest_update, cpu_dataset, ram_dataset, swap_dataset>>
                    /\ mainPc' = "poll"
          ELSE /\ UNCHANGED <<latest_update, cpu_dataset, ram_dataset, swap_dataset>>
               /\ mainPc' = "poll"
    /\ UNCHANGED <<screen, uiVars, starting_time, ram_important_digits, swap_important_digits,
                   cacheVars, bgVars, chan, envVars, obsVars, lastEvent, sortVars, exit_code>>

\* Lines 297-330 of the Dashboard loop: elapsed, the two probes, the recording.
RecordSamples ==
    /\ mainPc = "record"
    /\ LET elapsed == now - starting_time
           cpu == cpu_information
           mem == memory_information
       IN IF IsSome(cpu) /\ IsSome(mem)
          THEN IF DOMAIN cpu_dataset = {}
               THEN /\ latest_update' = now
                    /\ cpu_dataset' = InsertCores(cpu_dataset, Get(cpu), 1, elapsed)
                    /\ UNCHANGED <<ram_dataset, swap_dataset>>
                    /\ mainPc' = "poll"
               ELSE IF RecordDue
               THEN LET pushed == PushCores(cpu_dataset, Get(cpu), 1, elapsed)
                    IN /\ latest_update' = now
                       /\ cpu_dataset' = pushed.ds
                       /\ IF pushed.panic
                          THEN /\ UNCHANGED <<ram_dataset, swap_dataset>>
                               /\ mainPc' = "panicked"
                          ELSE /\ ram_dataset' = Append(ram_dataset,
                                     <<elapsed, MemorySample(Get(mem).used_memory,
                                                  Get(mem).total_memory, ram_important_digits)>>)
                               /\ swap_dataset' = Append(swap_dataset,
                                     <<elapsed, MemorySample(Get(mem).used_swap,
                                                  Get(mem).total_swap, swap_important_digits)>>)
                               /\ mainPc' = "poll"
               ELSE /\ UNCHANGED <<latest_update, cpu_dataset, ram_dataset, swap_dataset>>
                    /\ mainPc' = "poll"
          ELSE /\ UNCHANGED <<latest_update, cpu_dataset, ram_dataset, swap_dataset>>
               /\ mainPc' = "poll"
    /\ UNCHANGED <<screen, uiVars, starting_time, ram_important_digits, swap_important_digits,
                   cacheVars, bgVars, chan, envVars, obsVars, lastEvent, sortVars, exit_code>>

\* ------------------------------------------------------------ the Welcome loop
notMainVars == <<cacheVars, bgVars, envVars, obsVars, sortVars, exit_code>>

\* sender.send(()); thread.join() blocks until the thread has ended.
SendStopAndJoin ==
    /\ chan' = chan + 1
    /\ mainPc' = "join"

\* KeyCode::Char('q') | KeyCode::Esc in the Welcome loop.
WelcomeQuit ==
    /\ mainPc = "welcome"
    /\ \E e \in {"q", "Esc"} : lastEvent' = e
    /\ SendStopAndJoin
    /\ UNCHANGED <<screen, appVars, notMainVars>>

\* KeyCode::Enter => break; then starting_time is reset and the Dashboard loop starts.
WelcomeEnter ==
    /\ mainPc = "welcome"
    /\ lastEvent' = "Enter"
    /\ screen' = "Dashboard"
    /\ starting_time' = now
    /\ mainPc' = "draw"
    /\ UNCHANGED <<uiVars, ram_important_digits, swap_important_digits, cpu_dataset,
                   ram_dataset, swap_dataset, latest_update, notMainVars, chan>>

\* The Welcome loop breaking on any key that is not a quit key.
WelcomeAnyKeyEnters ==
    /\ mainPc = "welcome"
    /\ \E e \in Events \ {"q", "Esc", "Enter"} : lastEvent' = e
    /\ screen' = "Dashboard"
    /\ starting_time' = now
    /\ mainPc' = "draw"
    /\ UNCHANGED <<uiVars, ram_important_digits, swap_important_digits, cpu_dataset,
                   ram_dataset, swap_dataset, latest_update, notMainVars, chan>>

\* Any other key, a non-key event or no pending event: the loop goes round.
WelcomeIgnore ==
    /\ mainPc = "welcome"
    /\ \E e \in Events \ {"q", "Esc", "Enter"} : lastEvent' = e
    /\ UNCHANGED <<mainPc, screen, appVars, notMainVars, chan>>

\* ---------------------------------------------------- the Dashboard's event poll
\* What every handled event of the Dashboard loop does besides its own arm.
Handled(e) ==
    /\ mainPc = "poll"
    /\ lastEvent' = e
    /\ UNCHANGED <<screen, seriesVars, cacheVars, bgVars, envVars, frame, popup_kills,
                   sortVars, exit_code>>

\* A poll after which the iteration records its samples again before drawing.
PollNoneThenRecords ==
    /\ Handled("NoEvent")
    /\ mainPc' = "record"
    /\ UNCHANGED <<uiVars, chan, dismissed, denied>>

\* crossterm::event::poll(0) returns false: no event is pending.
PollNone ==
    /\ Handled("NoEvent")
    /\ mainPc' = "draw"
    /\ UNCHANGED <<uiVars, chan, dismissed, denied>>

\* KeyCode::Char('q') | KeyCode::Esc
KeyQuit ==
    /\ \E e \in {"q", "Esc"} : Handled(e)
    /\ SendStopAndJoin
    /\ UNCHANGED <<uiVars, dismissed, denied>>

\* A 'k' arm after which the same iteration reads the next pending event.
KeyKillReadsOn ==
    /\ Handled("k")
    /\ kill_current_process' = TRUE
    /\ dismissed' = FALSE
    /\ UNCHANGED denied
    /\ mainPc' = "poll"
    /\ UNCHANGED <<current_line, current_tab, process_ordering, component_ordering, more_information,
                   process_to_kill, confirm_kill, shift_pressed, chan>>

\* 'k' => kill_current_process = true
KeyKill ==
    /\ Handled("k")
    /\ kill_current_process' = TRUE
    /\ dismissed' = FALSE
    /\ UNCHANGED denied
    /\ mainPc' = "draw"
    /\ UNCHANGED <<current_line, current_tab, process_ordering, component_ordering, more_information,
                   process_to_kill, confirm_kill, shift_pressed, chan>>

\* 'i' => more_information = true
KeyInfo ==
    /\ Handled("i")
    /\ more_information' = TRUE
    /\ dismissed' = FALSE
    /\ UNCHANGED denied
    /\ mainPc' = "draw"
    /\ UNCHANGED <<current_line, current_tab, process_ordering, component_ordering, kill_current_process,
                   process_to_kill, confirm_kill, shift_pressed, chan>>

\* 'x' => more_information = false; kill_current_process = false; process_to_kill = None
KeyDismiss ==
    /\ Handled("x")
    /\ more_information' = FALSE
    /\ kill_current_process' = FALSE
    /\ process_to_kill' = None
    /\ dismissed' = TRUE
    /\ UNCHANGED denied
    /\ mainPc' = "draw"
    /\ UNCHANGED <<current_line, current_tab, process_ordering, component_ordering, confirm_kill,
                   shift_pressed, chan>>

\* 'y' => confirm_kill = Some(true); kill_current_process = false
KeyYes ==
    /\ Handled("y")
    /\ confirm_kill' = Some(TRUE)
    /\ kill_current_process' = FALSE
    /\ mainPc' = "draw"
    /\ UNCHANGED <<current_line, current_tab, process_ordering, component_ordering, more_information,
                   process_to_kill, shift_pressed, chan, dismissed, denied>>

\* 'n' => confirm_kill = Some(false); kill_current_process = false; process_to_kill = None
KeyNo ==
    /\ Handled("n")
    /\ confirm_kill' = Some(FALSE)
    /\ kill_current_process' = FALSE
    /\ process_to_kill' = None
    /\ denied' = IF "KillProcess" \in frame.popups THEN TRUE ELSE denied
    /\ mainPc' = "draw"
    /\ UNCHANGED <<current_line, current_tab, process_ordering, component_ordering, more_information,
                   shift_pressed, chan, dismissed>>

\* u16::saturating_sub(1) and u16::saturating_add(1), u16::MAX being MaxLine here.
saturating_sub(n) == IF n > 0 THEN n - 1 ELSE 0
saturating_add(n) == IF n < MaxLine THEN n + 1 ELSE MaxLine

\* KeyCode::Up and MouseEventKind::ScrollUp
LineUp ==
    /\ \E e \in {"Up", "ScrollUp"} : Handled(e)
    /\ current_line' = saturating_sub(current_line)
    /\ mainPc' = "draw"
    /\ UNCHANGED <<current_tab, process_ordering, component_ordering, kill_current_process, more_information,
                   process_to_kill, confirm_kill, shift_pressed, chan, dismissed, denied>>

\* Down and ScrollDown ignored while the last frame showed a popup.
LineDownBlockedByPopup ==
    /\ \E e \in {"Down", "ScrollDown"} : Handled(e)
    /\ current_line' = IF frame.popups # {} THEN current_line ELSE saturating_add(current_line)
    /\ mainPc' = "draw"
    /\ UNCHANGED <<current_tab, process_ordering, component_ordering, kill_current_process, more_information,
                   process_to_kill, confirm_kill, shift_pressed, chan, dismissed, denied>>

\* KeyCode::Down and MouseEventKind::ScrollDown
LineDown ==
    /\ \E e \in {"Down", "ScrollDown"} : Handled(e)
    /\ current_line' = saturating_add(current_line)
    /\ mainPc' = "draw"
    /\ UNCHANGED <<current_tab, process_ordering, component_ordering, kill_current_process, more_information,
                   process_to_kill, confirm_kill, shift_pressed, chan, dismissed, denied>>

\* The tab a Left key leads to: current_tab.saturating_sub(1).
TabLeft(tab) == IF tab > 0 THEN tab - 1 ELSE 0

\* The tab a Right key leads to: if current_tab < Tab::COUNT - 1 { current_tab += 1 }.
TabRight(tab) == IF tab < TabCOUNT - 1 THEN tab + 1 ELSE tab

\* A Left key that resets the line only when the tab changes.
KeyLeftKeepsLineOnFirstTab ==
    /\ Handled("Left")
    /\ current_tab' = TabLeft(current_tab)
    /\ current_line' = IF current_tab > 0 THEN 0 ELSE current_line
    /\ mainPc' = "draw"
    /\ UNCHANGED <<process_ordering, component_ordering, kill_current_process, more_information,
                   process_to_kill, confirm_kill, shift_pressed, chan, dismissed, denied>>

\* KeyCode::Left
KeyLeft ==
    /\ Handled("Left")
    /\ current_tab' = TabLeft(current_tab)
    /\ current_line' = 0
    /\ mainPc' = "draw"
    /\ UNCHANGED <<process_ordering, component_ordering, kill_current_process, more_information,
                   process_to_kill, confirm_kill, shift_pressed, chan, dismissed, denied>>

\* KeyCode::Right
KeyRight ==
    /\ Handled("Right")
    /\ current_tab' = TabRight(current_tab)
    /\ current_line' = 0
    /\ mainPc' = "draw"
    /\ UNCHANGED <<process_ordering, component_ordering, kill_current_process, more_information,
                   process_to_kill, confirm_kill, shift_pressed, chan, dismissed, denied>>

\* Sort keys with the two cases swapped.
KeyDirectionInverted(e) == IF e \in {"c", "m", "s", "r", "t"} THEN "Descending" ELSE "Ascending"

\* The direction a sort key selects: Ascending for the lower-case letter.
KeyDirection(e) == IF e \in {"c", "m", "s", "r", "t"} THEN "Ascending" ELSE "Descending"

\* process_ordering after sort key e: 'c'/'C' only on the Processes tab (6 =>),
\* 'm'/'M', 's'/'S', 'r'/'R' on every tab.
ProcessOrderingAfter(e, tab, ordering) ==
    IF e \in {"c", "C"}
    THEN IF tab = ProcessesTab THEN [field |-> "CpuUsage", ord |-> KeyDirection(e)]
         ELSE ordering
    ELSE IF e \in {"m", "M"} THEN [field |-> "MemoryUsage", ord |-> KeyDirection(e)]
    ELSE IF e \in {"s", "S"} THEN [field |-> "SwapUsage", ord |-> KeyDirection(e)]
    ELSE IF e \in {"r", "R"} THEN [field |-> "Runtime", ord |-> KeyDirection(e)]
    ELSE ordering

\* component_ordering after sort key e when 'c'/'C' select Critical on every tab.
ComponentOrderingAfterOnEveryTab(e, tab, ordering) ==
    IF e \in {"c", "C"} THEN [field |-> "Critical", ord |-> KeyDirection(e)]
    ELSE IF e \in {"t", "T"} THEN [field |-> "Temperature", ord |-> KeyDirection(e)]
    ELSE ordering

\* component_ordering after sort key e: 'c'/'C' only on the Components tab
\* (7 =>), 't'/'T' on every tab.
ComponentOrderingAfter(e, tab, ordering) ==
    IF e \in {"c", "C"}
    THEN IF tab = ComponentsTab THEN [field |-> "Critical", ord |-> KeyDirection(e)]
         ELSE ordering
    ELSE IF e \in {"t", "T"} THEN [field |-> "Temperature", ord |-> KeyDirection(e)]
    ELSE ordering

\* KeyCode::Char('c' | 'C' | 'm' | 'M' | 's' | 'S' | 'r' | 'R' | 't' | 'T')
KeySortOf(keys) ==
    /\ \E e \in keys :
          /\ Handled(e)
          /\ process_ordering' = ProcessOrderingAfter(e, current_tab, process_ordering)
          /\ component_ordering' = ComponentOrderingAfter(e, current_tab, component_ordering)
    /\ mainPc' = "draw"
    /\ UNCHANGED <<current_line, current_tab, kill_current_process, more_information,
                   process_to_kill, confirm_kill, shift_pressed, chan, dismissed, denied>>

KeySort == KeySortOf(SortKeys)

\* The sort keys of the memory column alone.
KeySortMemory == KeySortOf({"m", "M"})

\* KeyCode::Modifier(LeftShift | RightShift) => shift_pressed = true
KeyShift ==
    /\ Handled("Shift")
    /\ shift_pressed' = TRUE
    /\ mainPc' = "draw"
    /\ UNCHANGED <<current_line, current_tab, process_ordering, component_ordering, kill_current_process,
                   more_information, process_to_kill, confirm_kill, chan, dismissed, denied>>

\* Every other event (the _ => () arms).
KeyOther ==
    /\ Handled("Other")
    /\ mainPc' = "draw"
    /\ UNCHANGED <<uiVars, chan, dismissed, denied>>

\* thread.join().unwrap() returns once the background thread has ended.
Join ==
    /\ mainPc = "join"
    /\ bgPc = "stopped"
    /\ mainPc' = "returned"
    /\ UNCHANGED <<screen, appVars, notMainVars, chan, lastEvent>>

\* -------------------------------------------------------------------- main
mainOnly == <<screen, appVars, cacheVars, network_info_temp, NETWORK_INFO, lockOwner,
              published, late_stores, chan, envVars, obsVars, lastEvent, sortVars>>

\* A set-up failure that main ignores, returning Ok(()).
EnterTerminalFailsSilently ==
    /\ mainPc = "startup"
    /\ mainPc' = "exited"
    /\ exit_code' = Some(0)
    /\ UNCHANGED <<bgPc, mainOnly>>

\* enable_raw_mode()?, execute!(EnterAlternateScreen, EnableMouseCapture)? or
\* Terminal::new(backend)? returns Err: main returns it.
EnterTerminalFails ==
    /\ mainPc = "startup"
    /\ mainPc' = "exited"
    /\ exit_code' = Some(1)
    /\ UNCHANGED <<bgPc, mainOnly>>

\* The three calls succeed and run_app starts: it spawns the background thread
\* and enters the Welcome loop.
EnterTerminal ==
    /\ mainPc = "startup"
    /\ mainPc' = "welcome"
    /\ bgPc' = "check"
    /\ UNCHANGED <<exit_code, mainOnly>>

\* run_app has returned: disable_raw_mode()?, execute!(LeaveAlternateScreen,
\* DisableMouseCapture)?, show_cursor()?, Ok(()).
LeaveTerminal ==
    /\ mainPc = "returned"
    /\ mainPc' = "exited"
    /\ \E restored \in BOOLEAN : exit_code' = IF restored THEN Some(0) ELSE Some(1)
    /\ UNCHANGED <<bgPc, mainOnly>>

\* ------------------------------------------------------ the background thread
bgOnly == <<mainPc, screen, appVars, cacheVars, envVars, obsVars, lastEvent, sortVars, exit_code>>

\* The thread's loop without its stop check: it probes again whatever was sent.
BgCheckStopNeverBreaks ==
    /\ bgPc = "check"
    /\ chan' = chan
    /\ bgPc' = "probe"
    /\ UNCHANGED <<network_info_temp, NETWORK_INFO, lockOwner, published, late_stores, bgOnly>>

\* The thread's loop without network_info_temp: NETWORK_INFO is locked first and
\* the probe runs with the guard held.
BgCheckStopLockFirst ==
    /\ bgPc = "check"
    /\ IF chan > 0
       THEN /\ chan' = chan - 1
            /\ bgPc' = "stopped"
            /\ lockOwner' = lockOwner
       ELSE /\ chan' = chan
            /\ lockOwner = "free"
            /\ lockOwner' = "bg"
            /\ bgPc' = "probe"
    /\ UNCHANGED <<network_info_temp, NETWORK_INFO, published, late_stores, bgOnly>>

\* if receiver.try_recv().is_ok() { break; }
BgCheckStop ==
    /\ bgPc = "check"
    /\ IF chan > 0
       THEN /\ chan' = chan - 1
            /\ bgPc' = "stopped"
       ELSE /\ chan' = chan
            /\ bgPc' = "probe"
    /\ UNCHANGED <<network_info_temp, NETWORK_INFO, lockOwner, published, late_stores, bgOnly>>

\* let network_info_temp = Some(parallel_manager.network_information()): the probe,
\* in flight while bgPc = "probe", returns.
BgProbe ==
    /\ bgPc = "probe"
    /\ \E n \in 0..MaxNets : network_info_temp' = Some(n)
    /\ bgPc' = "lock"
    /\ UNCHANGED <<NETWORK_INFO, lockOwner, published, late_stores, chan, bgOnly>>

\* A thread that looks at the channel again once its probe has returned and
\* drops the result when a stop message is there.
BgLockChecksStop ==
    /\ bgPc = "lock"
    /\ IF chan > 0
       THEN /\ chan' = chan - 1
            /\ bgPc' = "stopped"
            /\ lockOwner' = lockOwner
       ELSE /\ chan' = chan
            /\ lockOwner = "free"
            /\ lockOwner' = "bg"
            /\ bgPc' = "store"
    /\ UNCHANGED <<network_info_temp, NETWORK_INFO, published, late_stores, bgOnly>>

\* let mut network_info = NETWORK_INFO.lock().unwrap()
BgLock ==
    /\ bgPc = "lock"
    /\ lockOwner = "free"
    /\ lockOwner' = "bg"
    /\ bgPc' = "store"
    /\ UNCHANGED <<network_info_temp, NETWORK_INFO, published, late_stores, chan, bgOnly>>

\* *network_info = network_info_temp (a move); the guard is dropped at the end of the iteration
BgStore ==
    /\ bgPc = "store"
    /\ NETWORK_INFO' = network_info_temp
    /\ published' = network_info_temp
    /\ late_stores' = IF chan > 0 THEN (IF late_stores < 2 THEN late_stores + 1 ELSE 2) ELSE late_stores
    /\ network_info_temp' = None
    /\ lockOwner' = "free"
    /\ bgPc' = "check"
    /\ UNCHANGED <<chan, bgOnly>>

BgNext == BgCheckStop \/ BgProbe \/ BgLock \/ BgStore

\* ------------------------------------------------------------------ the clock
\* Time passes: far enough for a cache filled before to be stale.
Tick ==
    /\ now + INTERVAL + 1 <= MaxTime
    /\ now' = now + INTERVAL + 1
    /\ UNCHANGED <<mainPc, screen, appVars, cacheVars, bgVars, chan, supported, running,
                   cores, memory, obsVars, lastEvent, sortVars, exit_code>>

\* Time passes by half a second or by seven tenths: less than INTERVAL at a time,
\* so that a cache or a series is read before, exactly at and after INTERVAL.
TickSteps == {5, 7}

TickFine ==
    /\ \E d \in TickSteps : now + d <= MaxFineTime /\ now' = now + d
    /\ UNCHANGED <<mainPc, screen, appVars, cacheVars, bgVars, chan, supported, running,
                   cores, memory, obsVars, lastEvent, sortVars, exit_code>>

\* ------------------------------------------------------------ the environment
\* The load changes: the usage sysinfo reports for every core rises by ten points.
CpuLoadChanges ==
    /\ cores[1].usage < MaxUsage
    /\ cores' = [c \in DOMAIN cores |-> [cores[c] EXCEPT !.usage = @ + 10]]
    /\ UNCHANGED <<mainPc, screen, appVars, cacheVars, bgVars, chan, now, supported, running,
                   memory, obsVars, lastEvent, sortVars, exit_code>>

\* Time passes in part-interval steps for as long as three recordings take.
TickRecorder ==
    /\ \E d \in TickSteps : now + d <= MaxRecordTime /\ now' = now + d
    /\ UNCHANGED <<mainPc, screen, appVars, cacheVars, bgVars, chan, supported, running,
                   cores, memory, obsVars, lastEvent, sortVars, exit_code>>

\* backend::MemoryInfo after memory and swap have been added to the machine.
ResizedMemoryInfo ==
    [total_memory |-> 32000, used_memory |-> 4000, total_swap |-> 8000, used_swap |-> 1000]

\* The operating system reports other total capacities than at start.
MemoryResized ==
    /\ memory = MemoryInfo
    /\ memory' = ResizedMemoryInfo
    /\ UNCHANGED <<mainPc, screen, appVars, cacheVars, bgVars, chan, now, supported, running,
                   cores, obsVars, lastEvent, sortVars, exit_code>>

\* sysinfo lists the same cores in the opposite order.
CoresReordered ==
    /\ cores' = [i \in 1..Len(cores) |-> cores[Len(cores) + 1 - i]]
    /\ UNCHANGED <<mainPc, screen, appVars, cacheVars, bgVars, chan, now, supported, running,
                   memory, obsVars, lastEvent, sortVars, exit_code>>

\* A running process ends by itself.
ProcessExits ==
    /\ running # <<>>
    /\ running' = Tail(running)
    /\ UNCHANGED <<mainPc, screen, appVars, cacheVars, bgVars, chan, now, supported, cores,
                   memory, obsVars, lastEvent, sortVars, exit_code>>

\* The main thread's steps: the Welcome loop, then the Dashboard loop.
MainNext ==
    \/ WelcomeQuit \/ WelcomeEnter \/ WelcomeIgnore
    \/ Draw \/ RecordSamples
    \/ PollNone \/ KeyQuit \/ KeyKill \/ KeyInfo \/ KeyDismiss \/ KeyYes \/ KeyNo
    \/ LineUp \/ LineDown \/ KeyLeft \/ KeyRight \/ KeyShift \/ KeyOther

\* The interaction state machine: the main thread and the clock, seen while the
\* background thread has not come back from its first probe.
Next == MainNext \/ Tick

Spec == Init /\ [][Next]_vars

\* The two threads together, for a user who navigates tabs, asks for more
\* information, dismisses and quits.
ThreadNext ==
    \/ WelcomeQuit \/ WelcomeEnter \/ WelcomeIgnore
    \/ Draw \/ RecordSamples
    \/ PollNone \/ KeyQuit \/ KeyInfo \/ KeyDismiss \/ KeyLeft \/ KeyRight
    \/ Join
    \/ BgCheckStop \/ BgProbe \/ BgLock \/ BgStore

ThreadSpec == Init /\ [][ThreadNext]_vars

\* The Dashboard of a user who only moves between tabs, seen on a clock fine
\* enough to tell the refresh interval, while the load and the processes change.
TimedNext ==
    \/ WelcomeEnter \/ Draw \/ RecordSamples
    \/ PollNone \/ KeyLeft \/ KeyRight
    \/ TickFine \/ CpuLoadChanges \/ ProcessExits

TimedSpec == Init /\ [][TimedNext]_vars

\* main from its first line: the terminal set-up, run_app with both threads for
\* a user who navigates tabs, asks for more information and quits, the restore.
MainFnInit == mainPc = "startup" /\ bgPc = "unspawned" /\ AppFields /\ SortIdle

MainFnNext == EnterTerminalFails \/ EnterTerminal \/ ThreadNext \/ LeaveTerminal

MainFnSpec == MainFnInit /\ [][MainFnNext]_vars

\* The Dashboard of a user who enters it sooner or later and then only watches,
\* over the time of three recordings, while the load and the memory change.
RecorderNext ==
    \/ WelcomeIgnore \/ WelcomeEnter \/ Draw \/ RecordSamples \/ PollNone
    \/ TickRecorder \/ CpuLoadChanges \/ MemoryResized

RecorderSpec == Init /\ [][RecorderNext]_vars

\* The Dashboard of a user who goes to the Processes tab and back, moves the
\* cursor, sorts by memory and asks for kills, while the clock runs far enough
\* for the process list to be refreshed.
KillNext ==
    \/ WelcomeEnter \/ Draw \/ RecordSamples
    \/ PollNone \/ KeyKill \/ KeyYes \/ KeyNo \/ LineUp \/ LineDown \/ KeyLeft \/ KeyRight
    \/ KeySortMemory \/ Tick

KillSpec == Init /\ [][KillNext]_vars

\* The Dashboard of a user who moves between tabs and lines, presses the sort
\* keys and asks for more information, the clock standing still.
OrderNext ==
    \/ WelcomeEnter \/ Draw \/ RecordSamples
    \/ PollNone \/ KeySort \/ KeyLeft \/ KeyRight \/ LineUp \/ LineDown
    \/ KeyShift \/ KeyOther \/ KeyInfo \/ KeyDismiss

OrderSpec == Init /\ [][OrderNext]_vars

\* The Dashboard of a user who only watches, over the time of three recordings,
\* while the load changes and the order in which the cores are listed changes.
CoreOrderNext ==
    \/ WelcomeEnter \/ Draw \/ RecordSamples \/ PollNone
    \/ TickRecorder \/ CpuLoadChanges \/ CoresReordered

CoreOrderSpec == Init /\ [][CoreOrderNext]_vars

\* run_app started on machines of every capacity, for a user who enters the
\* Dashboard and watches it over the time of three recordings.
ScaleInit == mainPc = "welcome" /\ bgPc = "check" /\ (\E mem \in MemoryInfos : AppFieldsOf(mem)) /\ SortIdle

ScaleNext == WelcomeEnter \/ Draw \/ RecordSamples \/ PollNone \/ TickRecorder

ScaleSpec == ScaleInit /\ [][ScaleNext]_vars

\* The scheduler runs the background thread and the probe calls return; a join
\* whose thread has ended returns.
FairThreadSpec == ThreadSpec /\ WF_vars(BgNext) /\ WF_vars(Join)

TypeOK ==
    /\ mainPc \in {"startup", "welcome", "draw", "record", "poll", "join", "returned",
                  "panicked", "exited"}
    /\ screen \in {"Welcome", "Dashboard"}
    /\ current_line \in 0..MaxLine
    /\ current_tab \in 0..(TabCOUNT - 1)
    /\ bgPc \in {"unspawned", "check", "probe", "lock", "store", "stopped"}
    /\ exit_code \in {None, Some(0), Some(1)}
    /\ lockOwner \in {"free", "bg"}
    /\ frame.popups \subseteq PopupKinds
    /\ late_stores \in 0..2

\* ====================================================================== claims
ConfirmKillShown == "KillProcess" \in frame.popups

\* A step of the main thread that draws a frame (or panics drawing it).
DrawStep == mainPc = "draw" /\ mainPc' # "draw"

\* The list the Processes tab displays: the cached list, empty while unavailable.
DisplayedProcesses == IF IsSome(proc_info) THEN Get(proc_info) ELSE <<>>

\* C1: once the main thread has handled a quit key (it has sent the stop message
\* and waits in join), the background thread eventually stops and the join returns.
C1_QuitStopsThread == (mainPc = "join") ~> (bgPc = "stopped" /\ mainPc = "returned")

C1_Witness == mainPc = "returned" /\ bgPc = "stopped" /\ screen = "Dashboard"

\* C2: whenever run_app has ended, by returning or by unwinding, the stop message
\* was sent and the background thread has stopped and been joined.
C2_NoThreadAbandoned ==
    mainPc \in {"returned", "panicked"} => bgPc = "stopped"

\* C3: the frame drawn after a confirm key handled on a ConfirmKill popup calls
\* kill_process once, on the popup's target, and shows no popup; the frame drawn
\* after a deny key calls no kill and shows no popup; a popup is never answered
\* by more than one kill, and a denied one by none.
C3_ConfirmKillsOnceAndClears ==
    /\ [][(DrawStep /\ ConfirmKillShown /\ lastEvent = "y") =>
            /\ mainPc' = "record"
            /\ frame'.killed = frame.target
            /\ IsSome(frame'.killed)
            /\ popup_kills' = 1
            /\ frame'.popups = {}
            /\ process_to_kill' = None
            /\ ~kill_current_process']_vars
    /\ [][(DrawStep /\ ConfirmKillShown /\ lastEvent = "n") =>
            /\ mainPc' = "record"
            /\ frame'.killed = None
            /\ popup_kills' = 0
            /\ frame'.popups = {}
            /\ process_to_kill' = None
            /\ ~kill_current_process']_vars
    /\ [](popup_kills <= 1)
    /\ [](denied => popup_kills = 0)

\* C4: the frame drawn after a kill trigger handled while the Processes tab
\* showed no popup shows ConfirmKill on the entry current_line selects in the
\* sorted list, and the no-selection warning when current_line selects none
\* (the list being empty or unavailable included).
C4_KillTriggerTargetsSelected ==
    [][(DrawStep /\ lastEvent = "k" /\ current_tab = ProcessesTab
          /\ frame.tab = ProcessesTab /\ frame.popups = {}) =>
            IF IsSome(SelectedProcess)
            THEN /\ frame'.popups = {"KillProcess"}
                 /\ frame'.target = Some(Get(SelectedProcess).pid)
            ELSE frame'.popups = {"NoSelected"}]_vars

\* C5: a frame shows at most one popup variant, and every frame drawn after a
\* dismiss key, until a trigger key is handled, shows none.
C5_OnePopupAndDismissClears ==
    /\ Cardinality(frame.popups) <= 1
    /\ (dismissed /\ mainPc \in {"record", "poll"}) => frame.popups = {}
    /\ dismissed => (~kill_current_process /\ ~more_information /\ process_to_kill = None)

C5_Witness ==
    /\ dismissed /\ mainPc = "poll" /\ frame.tab = ProcessesTab
    /\ Len(DisplayedProcesses) > 0

\* C6: on the Processes tab current_line is at least 0 and at most the length of
\* the displayed list minus one (0 for an empty list).
C6_LineWithinCollection ==
    (mainPc = "poll" /\ current_tab = ProcessesTab) =>
        /\ current_line >= 0
        /\ current_line <= (IF Len(DisplayedProcesses) > 0
                            THEN Len(DisplayedProcesses) - 1 ELSE 0)

\* C7: in the Dashboard current_tab is always a tab ui renders, so drawing a frame
\* never reaches the dispatch's unreachable arm.
C7_TabAlwaysRendered == current_tab \in 0..LastRenderedTab

\* C8: once the Dashboard loop runs, it ends only by a quit key: it never panics.
C8_LoopNeverPanics == mainPc # "panicked"

\* C9: the interaction starts in Welcome; it leaves Welcome for the Dashboard only
\* on Enter, and Enter always does so; the program leaves the Welcome loop
\* otherwise only on q or Esc, to stop; the Dashboard never goes back to Welcome.
C9_WelcomeThenDashboard ==
    /\ (screen = "Welcome" /\ mainPc = "welcome")
    /\ [][(screen = "Welcome" /\ screen' = "Dashboard") =>
            (lastEvent' = "Enter" /\ mainPc' = "draw")]_vars
    /\ [][(mainPc = "welcome" /\ lastEvent' = "Enter") => screen' = "Dashboard"]_vars
    /\ [][(mainPc = "welcome" /\ mainPc' # "welcome" /\ screen' = "Welcome") =>
            (lastEvent' \in {"q", "Esc"} /\ mainPc' = "join")]_vars
    /\ [][(mainPc = "welcome" /\ lastEvent' \in {"q", "Esc"}) => mainPc' = "join"]_vars
    /\ [][screen = "Dashboard" => (screen' = "Dashboard" /\ mainPc' # "welcome")]_vars

C9_Witness == screen = "Dashboard" /\ mainPc = "poll" /\ current_tab = 3

\* C10: the background thread holds the NETWORK_INFO mutex only to store a
\* finished result, never while a probe is in flight, so a frame of the Networks
\* tab can be held up only while the thread is storing.
C10_ProbeOutsideLock ==
    /\ bgPc = "probe" => lockOwner = "free"
    /\ lockOwner = "bg" => bgPc = "store"
    /\ (mainPc = "draw" /\ current_tab = NetworkTab /\ ~ENABLED Draw) => bgPc = "store"

C10_Witness ==
    mainPc = "record" /\ frame.tab = NetworkTab /\ bgPc = "probe" /\ IsSome(NETWORK_INFO)

FrameDrawn == DrawStep /\ mainPc' = "record"

\* A step of the main thread that runs the sample recording of one iteration.
RecordStep == mainPc = "record" /\ mainPc' # "record"

\* C12: when a frame of a tab follows, within the refresh interval, a frame of
\* the same tab that fetched the tab's category from the Platform Probe, it
\* calls no probe: the category is served from the value cached by the first.
C12_ReadsWithinIntervalUseCache ==
    [][(FrameDrawn /\ frame.tab = current_tab /\ frame.probed # {}
          /\ now - frame.at <= INTERVAL) => frame'.probed = {}]_vars

\* Two optional lists hold the same entries (process_tab re-sorts its cache).
SameEntries(a, b) ==
    /\ IsSome(a) <=> IsSome(b)
    /\ IsSome(a) => /\ Len(Get(a)) = Len(Get(b))
                    /\ { Get(a)[i] : i \in 1..Len(Get(a)) } = { Get(b)[i] : i \in 1..Len(Get(b)) }

\* C13: drawing the Processes tab (the CPU tab) calls process_information
\* (cpu_information) and stores its result with the current instant exactly when
\* nothing was fetched yet or more than INTERVAL has passed since the last fetch;
\* otherwise, also at exactly INTERVAL, it calls no probe and keeps the cache.
C13_FetchExactlyWhenStale ==
    /\ [][(FrameDrawn /\ current_tab = ProcessesTab) =>
            IF proc_at = None \/ now - Get(proc_at) > INTERVAL
            THEN /\ frame'.probed = {"processes"}
                 /\ proc_at' = Some(now)
                 /\ SameEntries(proc_info', process_information)
            ELSE /\ frame'.probed = {}
                 /\ proc_at' = proc_at
                 /\ SameEntries(proc_info', proc_info)]_vars
    /\ [][(FrameDrawn /\ current_tab = CpuTab) =>
            IF cpu_at = None \/ now - Get(cpu_at) > INTERVAL
            THEN /\ frame'.probed = {"cpu"}
                 /\ cpu_at' = Some(now)
                 /\ cpu_info' = cpu_information
            ELSE /\ frame'.probed = {}
                 /\ cpu_at' = cpu_at
                 /\ cpu_info' = cpu_info]_vars

\* A frame of the Processes tab drawn exactly INTERVAL after the fetch, from the
\* cache, while the operating system already runs fewer processes.
C13_Witness ==
    /\ frame.tab = ProcessesTab /\ mainPc = "record" /\ frame.probed = {}
    /\ IsSome(proc_at) /\ frame.at - Get(proc_at) = INTERVAL
    /\ IsSome(proc_info) /\ Len(Get(proc_info)) > Len(running)

\* elapsed = app_state.starting_time.elapsed()
Elapsed == now - starting_time

\* The series keys: one per core the operating system reports, RAM and swap.
SeriesKeys ==
    { [kind |-> "cpu", core |-> c] : c \in DOMAIN cores }
        \cup { [kind |-> "ram", core |-> 0], [kind |-> "swap", core |-> 0] }

\* The series recorded for a key in given datasets (empty for a core with none).
SeriesOf(k, cpu, ram, swap) ==
    CASE k.kind = "ram" -> ram
      [] k.kind = "swap" -> swap
      [] OTHER -> IF CpuKey(cores[k.core]) \in DOMAIN cpu THEN cpu[CpuKey(cores[k.core])] ELSE <<>>

Series(k) == SeriesOf(k, cpu_dataset, ram_dataset, swap_dataset)

\* The value a recording step made now offers for a key.
Offered(k) ==
    CASE k.kind = "ram" -> MemorySample(memory.used_memory, memory.total_memory, ram_important_digits)
      [] k.kind = "swap" -> MemorySample(memory.used_swap, memory.total_swap, swap_important_digits)
      [] OTHER -> cores[k.core].usage

\* C14: with the probes available, a recording step appends the offered sample
\* to a key's series exactly when the series is empty or more than INTERVAL has
\* elapsed since the key's last sample, and leaves the series alone otherwise.
C14_AppendExactlyWhenDue ==
    [][(RecordStep /\ supported) =>
        \A k \in SeriesKeys :
            LET series == Series(k)
                after == SeriesOf(k, cpu_dataset', ram_dataset', swap_dataset')
            IN IF series = <<>> \/ Elapsed - series[Len(series)][1] > INTERVAL
               THEN after = Append(series, <<Elapsed, Offered(k)>>)
               ELSE after = series]_vars

\* C15: for every key, a recording step at elapsed 0.0 on the empty series
\* records the sample; a step at 0.5 s leaves the series [(0.0, v)] alone; a
\* step at 1.2 s appends its sample: the series is then [(0.0, v), (1.2, w)].
C15_HalfSecondSampleSuppressed ==
    [][(RecordStep /\ supported) =>
        \A k \in SeriesKeys :
            LET series == Series(k)
                after == SeriesOf(k, cpu_dataset', ram_dataset', swap_dataset')
            IN /\ (series = <<>> /\ Elapsed = 0) => after = << <<0, Offered(k)>> >>
               /\ (Len(series) = 1 /\ series[1][1] = 0 /\ Elapsed = 5) => after = series
               /\ (Len(series) = 1 /\ series[1][1] = 0 /\ Elapsed = 12) =>
                      after = << series[1], <<12, Offered(k)>> >>]_vars

\* The number an element is compared by under a sort field.
SortKey(field, x) ==
    CASE field = "CpuUsage" -> x.cpu_usage
      [] field = "MemoryUsage" -> x.memory_usage
      [] field = "SwapUsage" -> x.swap_usage
      [] field = "Runtime" -> x.run_time
      [] field = "Temperature" -> x.temperature
      [] field = "Critical" ->
            IF x.critical_temperature = None THEN 0 ELSE x.critical_temperature[1]

Reverse(l) == [i \in 1..Len(l) |-> l[Len(l) + 1 - i]]
PositionIn(l, x) == CHOOSE i \in 1..Len(l) : l[i] = x
LastApplied == sort_applied[Len(sort_applied)]
\* The list the last sort was given: process_tab sorts the list it holds,
\* component_tab the list its probe returned.
SortGiven == IF sort_kind = "processes" THEN sort_prev ELSE sort_input
DistinctKeys(l, field) ==
    \A i, j \in 1..Len(l) : i # j => SortKey(field, l[i]) # SortKey(field, l[j])

\* C16: a sorted list (of processes or of components, by any field) holds the
\* elements it was given, in the order of the direction, elements with equal
\* keys in the order they were given in; and a list sorted ascending and then
\* descending by the same field, its keys pairwise distinct, is exactly reversed
\* by the second sort.
C16_StableSortAndReverse ==
    sort_applied # <<>> =>
        LET field == LastApplied.field
            n == Len(sort_list)
        IN /\ n = Len(SortGiven)
           /\ { sort_list[i] : i \in 1..n } = { SortGiven[i] : i \in 1..n }
           /\ \A i, j \in 1..n : i < j =>
                 /\ LastApplied.ord = "Ascending" =>
                        SortKey(field, sort_list[i]) <= SortKey(field, sort_list[j])
                 /\ LastApplied.ord = "Descending" =>
                        SortKey(field, sort_list[i]) >= SortKey(field, sort_list[j])
                 /\ SortKey(field, sort_list[i]) = SortKey(field, sort_list[j]) =>
                        PositionIn(SortGiven, sort_list[i]) < PositionIn(SortGiven, sort_list[j])
           /\ ( /\ Len(sort_applied) = 2
                /\ sort_applied[1] = [field |-> field, ord |-> "Ascending"]
                /\ sort_applied[2] = [field |-> field, ord |-> "Descending"]
                /\ DistinctKeys(sort_input, field) ) =>
                 sort_list = Reverse(sort_prev)

C16_Witness ==
    /\ Len(sort_applied) = 2 /\ Len(sort_list) = 3
    /\ sort_applied[1] = [field |-> "CpuUsage", ord |-> "Ascending"]
    /\ sort_applied[2] = [field |-> "CpuUsage", ord |-> "Descending"]
    /\ DistinctKeys(sort_input, "CpuUsage")
    /\ sort_list = Reverse(sort_prev) /\ sort_prev # sort_input

\* The components of the example: CPU0 (40, critical 90) and CPU1 (85, none).
ExampleComponents ==
    << [name |-> "CPU0", temperature |-> 40, critical_temperature |-> Some(90)],
       [name |-> "CPU1", temperature |-> 85, critical_temperature |-> None] >>

\* C17: [CPU0, CPU1] sorted by temperature descending is [CPU1, CPU0], and
\* sorted by critical temperature ascending is [CPU1, CPU0] too, the absent
\* critical temperature of CPU1 counting as 0; under the Critical field a
\* component without critical temperature never stands after one whose
\* critical temperature is above 0 (ascending), nor before one (descending).
C17_AbsentCriticalIsZero ==
    (sort_kind = "components" /\ sort_applied # <<>>) =>
        /\ ( /\ sort_input = ExampleComponents
             /\ LastApplied \in { [field |-> "Temperature", ord |-> "Descending"],
                                   [field |-> "Critical", ord |-> "Ascending"] } ) =>
              sort_list = << ExampleComponents[2], ExampleComponents[1] >>
        /\ LastApplied.field = "Critical" =>
              \A i, j \in 1..Len(sort_list) :
                  ( /\ sort_list[i].critical_temperature = None
                    /\ sort_list[j].critical_temperature # None
                    /\ sort_list[j].critical_temperature[1] > 0 ) =>
                      IF LastApplied.ord = "Ascending" THEN i < j ELSE j < i

C17_Witness ==
    /\ sort_kind = "components" /\ sort_input = ExampleComponents
    /\ Len(sort_applied) = 2
    /\ sort_applied[1] = [field |-> "Temperature", ord |-> "Descending"]
    /\ sort_applied[2] = [field |-> "Critical", ord |-> "Ascending"]
    /\ sort_list = << ExampleComponents[2], ExampleComponents[1] >>

\* A step of the main thread that handles event e of the Dashboard loop.
HandledStep(e) == mainPc = "poll" /\ mainPc' # "poll" /\ lastEvent' = e

\* C18: every handled Left or Right key leaves current_line at 0 and the tab at
\* its neighbour, the first and the last tab staying where they are.
C18_TabMoveResetsLine ==
    /\ [][HandledStep("Left") =>
            current_line' = 0 /\ current_tab' = TabLeft(current_tab)]_vars
    /\ [][HandledStep("Right") =>
            current_line' = 0 /\ current_tab' = TabRight(current_tab)]_vars

\* A Left key handled on the first tab, which the last frame drew.
C18_Witness ==
    /\ mainPc = "draw" /\ lastEvent = "Left"
    /\ frame.tab = 0 /\ current_tab = 0 /\ current_line = 0

NavigationEvents == {"Up", "Down", "ScrollUp", "ScrollDown", "Left", "Right"}

\* The line and the tab a navigation event leads to.
LineAfter(e, line) ==
    IF e \in {"Up", "ScrollUp"} THEN saturating_sub(line)
    ELSE IF e \in {"Down", "ScrollDown"} THEN saturating_add(line)
    ELSE 0
TabAfter(e, tab) ==
    IF e = "Left" THEN TabLeft(tab) ELSE IF e = "Right" THEN TabRight(tab) ELSE tab

\* C19: a navigation event handled while the last frame shows a popup moves the
\* line and the tab as it does without a popup, leaves the popup flags, the
\* latched target and the answer untouched and kills nothing; the frame drawn
\* next calls no kill, and on the Processes tab with the cursor still on a
\* process it shows the same popup on the same target.
C19_NavigationLiveUnderPopup ==
    /\ [][\A e \in NavigationEvents :
            (HandledStep(e) /\ frame.popups # {}) =>
                /\ current_line' = LineAfter(e, current_line)
                /\ current_tab' = TabAfter(e, current_tab)
                /\ mainPc' = "draw"
                /\ UNCHANGED <<kill_current_process, more_information, process_to_kill,
                               confirm_kill, running>>]_vars
    /\ [][(DrawStep /\ lastEvent \in NavigationEvents /\ frame.popups # {}) =>
            /\ frame'.killed = None
            /\ running' = running
            /\ ( /\ current_tab = ProcessesTab /\ frame.tab = ProcessesTab
                 /\ IsSome(SelectedProcess) /\ "NoSelected" \notin frame.popups ) =>
                   frame'.popups = frame.popups /\ frame'.target = frame.target]_vars

\* Down handled under a ConfirmKill popup: the cursor has moved, the popup's
\* flag and target are kept.
C19_Witness ==
    /\ mainPc = "draw" /\ lastEvent = "Down"
    /\ frame.tab = ProcessesTab /\ ConfirmKillShown
    /\ current_line = 1 /\ kill_current_process /\ IsSome(process_to_kill)

\* C20: a trigger key that makes one popup active clears the other (at most one
\* of the two popup flags is ever set), so the frame drawn after a confirm or a
\* deny key answering a ConfirmKill popup shows no popup, the MoreInformation
\* popup requested before the kill trigger included.
C20_ExclusivePopupTransitions ==
    /\ [][HandledStep("k") => (kill_current_process' /\ ~more_information')]_vars
    /\ [][HandledStep("i") => (more_information' /\ ~kill_current_process')]_vars
    /\ [](~(kill_current_process /\ more_information))
    /\ [][(DrawStep /\ lastEvent \in {"y", "n"} /\ ConfirmKillShown /\ mainPc' = "record") =>
            frame'.popups = {}]_vars

\* C21: process_ordering and component_ordering change only in the step that
\* handles a sort key; drawing, recording, every other event and a poll without
\* event leave both as they are.
C21_OrderingChangesOnlyOnSortKey ==
    [][(process_ordering' # process_ordering \/ component_ordering' # component_ordering) =>
         \E e \in SortKeys : HandledStep(e)]_vars

\* Orderings selected earlier are still in force after a later event that is no
\* sort key and the frames drawn since.
C21_Witness ==
    /\ mainPc = "draw" /\ lastEvent = "Other" /\ frame.tab = ComponentsTab
    /\ process_ordering = [field |-> "MemoryUsage", ord |-> "Ascending"]
    /\ component_ordering = [field |-> "Critical", ord |-> "Ascending"]

\* The key of each sortable field: the list it sorts, the field, and the tab
\* the key is bound to (-1: every tab).
SortKeyBindings ==
    { [lower |-> "c", upper |-> "C", list |-> "processes", field |-> "CpuUsage", tab |-> ProcessesTab],
      [lower |-> "m", upper |-> "M", list |-> "processes", field |-> "MemoryUsage", tab |-> -1],
      [lower |-> "s", upper |-> "S", list |-> "processes", field |-> "SwapUsage", tab |-> -1],
      [lower |-> "r", upper |-> "R", list |-> "processes", field |-> "Runtime", tab |-> -1],
      [lower |-> "t", upper |-> "T", list |-> "components", field |-> "Temperature", tab |-> -1],
      [lower |-> "c", upper |-> "C", list |-> "components", field |-> "Critical", tab |-> ComponentsTab] }

OrderingOf(list) == IF list = "processes" THEN process_ordering ELSE component_ordering

\* C22: for every sortable field, handling its lower-case key (on the tab of
\* its list for 'c', which names a field of either list) makes the ordering of
\* that list the field Ascending, and handling its upper-case key the field
\* Descending.
C22_LowerAscendingUpperDescending ==
    [][\A b \in SortKeyBindings :
         /\ (HandledStep(b.lower) /\ b.tab \in {-1, current_tab}) =>
               OrderingOf(b.list)' = [field |-> b.field, ord |-> "Ascending"]
         /\ (HandledStep(b.upper) /\ b.tab \in {-1, current_tab}) =>
               OrderingOf(b.list)' = [field |-> b.field, ord |-> "Descending"]]_vars

C22_Witness ==
    /\ mainPc = "draw" /\ lastEvent = "C" /\ frame.tab = ComponentsTab
    /\ component_ordering = [field |-> "Critical", ord |-> "Descending"]
    /\ process_ordering = [field |-> "Runtime", ord |-> "Ascending"]

\* C23: in every series (each core, RAM, swap) the elapsed times of successive
\* samples never decrease.
C23_SeriesTimesNonDecreasing ==
    \A k \in SeriesKeys :
        \A i \in 1..(Len(Series(k)) - 1) : Series(k)[i][1] <= Series(k)[i + 1][1]

C23_Witness ==
    /\ Len(Series([kind |-> "cpu", core |-> 1])) = 3
    /\ Len(ram_dataset) = 2 /\ ram_dataset[1][1] < ram_dataset[2][1]

\* C24: every step keeps every series' samples as a prefix of the series (no
\* sample is removed or rewritten, no series dropped) and so its length never
\* decreases.
C24_SeriesAppendOnly ==
    [][/\ DOMAIN cpu_dataset \subseteq DOMAIN cpu_dataset'
       /\ \A k \in SeriesKeys :
             LET old == Series(k)
                 new == SeriesOf(k, cpu_dataset', ram_dataset', swap_dataset')
             IN Len(old) <= Len(new) /\ SubSeq(new, 1, Len(old)) = old]_vars

C24_Witness ==
    /\ Len(Series([kind |-> "cpu", core |-> 2])) = 3
    /\ Len(swap_dataset) = 2
    /\ memory = ResizedMemoryInfo

\* (used / total) * scale as the exact fraction, 0 for a zero total.
MemorySampleValue(used, total, scale) ==
    IF total = 0 THEN <<0, 1>> ELSE <<used * scale[1], total>>

\* The axis scales run_app computes from the capacities reported at start.
StartupScales ==
    IF supported
    THEN [ram |-> Some(ImportantDigits(MemoryInfo.total_memory, 1)),
          swap |-> Some(ImportantDigits(MemoryInfo.total_swap, 1))]
    ELSE [ram |-> None, swap |-> None]

\* C25: the two axis scales are those computed at start in every state, no step
\* assigns them, and a RAM or swap sample recorded after the operating system
\* reports other totals is still scaled by them.
C25_ScalesComputedOnce ==
    /\ [](ram_important_digits = StartupScales.ram /\ swap_important_digits = StartupScales.swap)
    /\ [][UNCHANGED <<ram_important_digits, swap_important_digits>>]_vars
    /\ [][(RecordStep /\ ram_dataset' # ram_dataset) =>
            /\ ram_dataset'[Len(ram_dataset')][2] =
                  MemorySampleValue(memory.used_memory, memory.total_memory, StartupScales.ram)
            /\ swap_dataset'[Len(swap_dataset')][2] =
                  MemorySampleValue(memory.used_swap, memory.total_swap, StartupScales.swap)]_vars

\* A RAM sample recorded after the resize, scaled by the digits of the old total.
C25_Witness ==
    /\ memory = ResizedMemoryInfo
    /\ Len(ram_dataset) = 1
    /\ ram_dataset[1][2] = <<4000 * 16, 32000>>
    /\ ram_important_digits = Some(16)

\* C26: a frame drawn on a confirmed kill calls kill_process once, on the
\* latched target, and whatever the call returns it clears the target and the
\* answer, leaves the rest of the interaction state as it was and the loop goes
\* on; the frame after a frame that called kill_process calls none.
C26_KillOnceWhateverItReturns ==
    /\ [][(DrawStep /\ current_tab = ProcessesTab /\ KillConfirmed /\ IsSome(LatchedTarget)) =>
            /\ frame'.killed = LatchedTarget
            /\ IsSome(frame'.result)
            /\ process_to_kill' = None
            /\ confirm_kill' = None
            /\ mainPc' = "record"
            /\ UNCHANGED <<current_line, current_tab, kill_current_process, more_information,
                           process_ordering, component_ordering>>]_vars
    /\ [][(DrawStep /\ IsSome(frame.killed)) => frame'.killed = None]_vars

\* kill_process has returned false on a target that had ended, and the loop
\* has gone on with the target cleared.
C26_Witness ==
    /\ frame.result = Some(FALSE)
    /\ mainPc = "poll"
    /\ process_to_kill = None /\ confirm_kill = None

\* main has ended on a failure of the terminal set-up.
StartupFailed == mainPc = "exited" /\ bgPc = "unspawned"

\* main has ended after run_app returned on a quit key, its thread joined.
QuitNormally == mainPc = "exited" /\ bgPc = "stopped"

\* A failed set-up ends main with an error, the background thread never
\* spawned, no loop entered and no frame drawn.
StartupFailureAborts ==
    /\ [][(mainPc = "startup" /\ mainPc' = "exited") =>
            exit_code' = Some(1) /\ bgPc' = "unspawned"]_vars
    /\ [](StartupFailed =>
            /\ exit_code = Some(1)
            /\ screen = "Welcome" /\ frame = NoFrame /\ lastEvent = "NoEvent" /\ chan = 0)
    /\ [](mainPc = "startup" => bgPc = "unspawned")

\* C27 as stated: a failed terminal set-up ends the program with an error before
\* the background thread is spawned and before any loop is entered, and a normal
\* quit ends it with exit code 0.
C27_ExitCodes ==
    /\ StartupFailureAborts
    /\ [](QuitNormally => exit_code = Some(0))

\* C27 as amended: a failed terminal set-up ends the program with an error before
\* the background thread is spawned and before any loop is entered; exit code 0
\* is returned only after a normal quit, and a normal quit ends with exit code 0
\* or, when restoring the terminal fails, with an error.
C27_ExitCodesAmended ==
    /\ StartupFailureAborts
    /\ [](exit_code = Some(0) => QuitNormally)
    /\ [](QuitNormally => exit_code \in {Some(0), Some(1)})
    /\ [][(mainPc = "returned" /\ mainPc' = "exited") => bgPc = "stopped"]_vars

\* A quit key handled in the Dashboard, the thread joined, the terminal restored.
C27_Witness ==
    /\ QuitNormally /\ exit_code = Some(0) /\ screen = "Dashboard"

\* C28: a kill made by the frame after a frame showing ConfirmKill is the kill
\* of the target that popup named; a ConfirmKill popup rendered with no target
\* latched latches the selected process; and a latched target changes only by
\* being cleared, on a dismiss key, a deny key or the kill itself: cursor
\* movement, a sort key and a refresh of the list leave it as it is.
C28_KilledIsNamedTarget ==
    /\ [][(DrawStep /\ ConfirmKillShown /\ IsSome(frame'.killed)) =>
            frame'.killed = frame.target]_vars
    /\ [][(DrawStep /\ current_tab = ProcessesTab /\ process_to_kill = None
              /\ "KillProcess" \in frame'.popups) =>
            /\ IsSome(SelectedProcess)
            /\ frame'.target = Some(Get(SelectedProcess).pid)
            /\ process_to_kill' = frame'.target]_vars
    /\ [][(IsSome(process_to_kill) /\ process_to_kill' # process_to_kill) =>
            /\ process_to_kill' = None
            /\ \/ HandledStep("x") \/ HandledStep("n")
               \/ (DrawStep /\ KillConfirmed /\ frame'.killed = process_to_kill)]_vars
    /\ [][(DrawStep /\ ConfirmKillShown /\ "KillProcess" \in frame'.popups) =>
            frame'.target = frame.target]_vars

\* The target of a popup has been killed after the list was refreshed and
\* sorted by memory and the cursor moved to another process.
C28_Witness ==
    /\ mainPc = "record" /\ IsSome(frame.killed) /\ frame.result = Some(TRUE)
    /\ process_ordering.field = "MemoryUsage" /\ now > 0
    /\ Len(DisplayedProcesses) = 2
    /\ current_line = 1
    /\ DisplayedProcesses[current_line + 1].pid # Get(frame.killed)

\* C29: a frame calls kill_process only after a confirm key handled while the
\* frame before showed the ConfirmKill popup.
C29_KillOnlyOnConfirmedPopup ==
    [][(DrawStep /\ IsSome(frame'.killed)) => (lastEvent = "y" /\ ConfirmKillShown)]_vars

\* C30: the frame drawn after a confirm key handled on the Processes tab with
\* no target latched calls no kill, leaves the popup flags and the cursor as
\* they were when the key arrived, and the loop goes on to the recording.
C30_ConfirmWithoutTargetIsIgnored ==
    [][(DrawStep /\ lastEvent = "y" /\ current_tab = ProcessesTab /\ frame.tab = ProcessesTab
          /\ process_to_kill = None) =>
            /\ frame'.killed = None
            /\ mainPc' = "record"
            /\ frame'.popups = frame.popups
            /\ UNCHANGED <<current_line, current_tab, more_information>>]_vars

\* C31: every iteration of the Dashboard loop draws a frame and then reads at most
\* one event, without waiting for one: whenever the loop is about to poll, a frame
\* has been drawn since the last event was handled, and the loop can go on with no
\* event pending; a confirm key is handled only after the frame that followed the
\* kill trigger.
C31_FrameBetweenEvents ==
    /\ [](mainPc = "poll" => (lastEvent = "NoEvent" /\ ENABLED PollNone))
    /\ [][(HandledStep("y") /\ kill_current_process /\ current_tab = ProcessesTab) =>
            /\ frame.tab = ProcessesTab
            /\ DisplayedProcesses # <<>> => frame.popups \cap {"KillProcess", "NoSelected"} # {}]_vars

C31_Witness ==
    /\ mainPc = "draw"
    /\ lastEvent = "y"
    /\ ConfirmKillShown
    /\ IsSome(process_to_kill)
    /\ confirm_kill = Some(TRUE)

\* C32: the thread leaves its loop only at the check that opens an iteration; a
\* probe in flight when the stop message is sent returns, its result is stored
\* in NETWORK_INFO, and the thread then ends; once the message is sent the
\* thread starts no further probe, so at most one snapshot is stored after it.
C32_StopOnlyBetweenProbes ==
    /\ [][bgPc' = "stopped" => bgPc \in {"check", "stopped"}]_vars
    /\ [][((mainPc \in {"join", "returned"}) /\ bgPc = "check") => bgPc' # "probe"]_vars
    /\ [][((mainPc \in {"join", "returned"}) /\ bgPc = "store" /\ bgPc' # "store") =>
            /\ IsSome(network_info_temp)
            /\ NETWORK_INFO' = network_info_temp
            /\ published' = network_info_temp
            /\ late_stores' = late_stores + 1]_vars
    /\ [](late_stores <= 1)
    /\ [](~(mainPc \in {"join", "returned"}) => late_stores = 0)
    /\ ((mainPc \in {"join", "returned"}) /\ bgPc \in {"probe", "lock", "store"})
          ~> (bgPc = "stopped" /\ late_stores = 1)

C32_Witness ==
    /\ mainPc = "returned"
    /\ bgPc = "stopped"
    /\ late_stores = 1
    /\ NETWORK_INFO = published
    /\ IsSome(published)

\* C33 as stated: in every iteration of the Dashboard loop the frame is followed
\* by the poll, the handling of the event by the recording of the samples, and
\* the recording by the next frame.
C33_IterationOrder ==
    /\ [][(DrawStep /\ mainPc' # "panicked") => mainPc' = "poll"]_vars
    /\ [][(mainPc = "poll" /\ mainPc' # "poll" /\ mainPc' # "join") => mainPc' = "record"]_vars
    /\ [][(RecordStep /\ mainPc' # "panicked") => mainPc' = "draw"]_vars

\* C33 amended: in every iteration of the Dashboard loop the frame is followed by
\* the recording of the samples, made before any event of the iteration is read
\* and leaving the interaction state alone; the recording is followed by the
\* poll, whose handler leaves the series alone; and the handling of the event
\* (a quit key apart) by the next frame.
C33_IterationOrderAmended ==
    /\ [][(DrawStep /\ mainPc' # "panicked") => mainPc' = "record"]_vars
    /\ [][(RecordStep /\ mainPc' # "panicked") =>
            /\ mainPc' = "poll"
            /\ lastEvent = "NoEvent" /\ lastEvent' = "NoEvent"
            /\ UNCHANGED <<uiVars, frame>>]_vars
    /\ [][(mainPc = "poll" /\ mainPc' # "poll" /\ mainPc' # "join") =>
            /\ mainPc' = "draw"
            /\ UNCHANGED <<seriesVars, frame>>]_vars
    /\ [][(mainPc = "poll" /\ mainPc' # "poll" /\ mainPc' = "join") => lastEvent' \in {"q", "Esc"}]_vars

C33_Witness ==
    /\ mainPc = "draw"
    /\ lastEvent = "Right"
    /\ frame.at = now
    /\ now > 0
    /\ Len(ram_dataset) = 1
    /\ ram_dataset[1][1] = now - starting_time
    /\ frame.tab + 1 = current_tab

\* C34: drawing a frame is a pure read: the draw calls no probe and no kill, and
\* leaves the cursor, the popup state, the orderings, the LATEST_INFO caches and
\* the series as they were.
C34_DrawIsPureRead ==
    [][DrawStep =>
         /\ frame'.probed = {}
         /\ frame'.killed = None
         /\ running' = running
         /\ UNCHANGED <<current_line, current_tab, kill_current_process, more_information,
                        process_to_kill, process_ordering, component_ordering>>
         /\ UNCHANGED cacheVars
         /\ UNCHANGED <<cpu_dataset, ram_dataset, swap_dataset>>]_vars

\* C35: the cached process list is never changed in place: a frame of the
\* Processes tab that fetches leaves in the cache the list exactly as the probe
\* returned it, a frame that does not fetch leaves the cache as it was, whatever
\* the ordering, and no other step writes the cache.
C35_CacheNeverMutated ==
    /\ [][(DrawStep /\ current_tab = ProcessesTab) =>
            /\ ProcessCacheStale => (proc_info' = process_information /\ proc_at' = Some(now))
            /\ ~ProcessCacheStale => UNCHANGED <<proc_info, proc_at>>]_vars
    /\ [][~(DrawStep /\ current_tab = ProcessesTab) => UNCHANGED <<proc_info, proc_at>>]_vars

\* C36: a recording appends to the series of every core the usage reported for
\* the core with that key, wherever the core stands in the probed list; the
\* series recorded from the list in the opposite order are the same.
C36_SamplesAttributedByKey ==
    [][LET UsageOf(k) == (CHOOSE c \in { cores[i] : i \in 1..Len(cores) } : CpuKey(c) = k).usage
           LastSample(series) == series[Len(series)]
       IN (RecordStep /\ mainPc' = "poll" /\ cpu_dataset' # cpu_dataset) =>
            /\ DOMAIN cpu_dataset' = { CpuKey(cores[i]) : i \in 1..Len(cores) }
            /\ \A k \in DOMAIN cpu_dataset' :
                  /\ LastSample(cpu_dataset'[k]) = <<now - starting_time, UsageOf(k)>>
                  /\ k \in DOMAIN cpu_dataset =>
                        cpu_dataset'[k] = Append(cpu_dataset[k], <<now - starting_time, UsageOf(k)>>)
            /\ cpu_dataset # <<>> =>
                  cpu_dataset' = PushCores(cpu_dataset, [i \in 1..Len(cores) |-> cores[Len(cores) + 1 - i]],
                                           1, now - starting_time).ds]_vars

C36_Witness ==
    LET UsageOf(k) == (CHOOSE c \in { cores[i] : i \in 1..Len(cores) } : CpuKey(c) = k).usage
        LastSample(series) == series[Len(series)]
    IN
       /\ mainPc = "poll"
       /\ latest_update = now
       /\ cores[1].model # CoreList[1].model
       /\ \A k \in DOMAIN cpu_dataset :
             /\ Len(cpu_dataset[k]) = 3
             /\ LastSample(cpu_dataset[k]) = <<now - starting_time, UsageOf(k)>>
       /\ cores[1].usage # cores[2].usage
       /\ cpu_dataset # <<>>

\* C37: the kill and info triggers are latched whatever tab is active: 'k' and
\* 'i' set their flag on every tab, a frame of a tab other than Processes and
\* Networks shows no popup, navigation leaves the flags alone, every frame of
\* the Processes tab drawn while the kill trigger is pending shows its popup
\* (ConfirmKill, or the no-selection warning) and every frame of the Networks
\* tab drawn while the info trigger is pending shows the info popup; only a
\* dismiss, confirm or deny key clears the kill trigger and only a dismiss key
\* the info trigger.
C37_TriggersLatchedAcrossTabs ==
    /\ [][HandledStep("k") => kill_current_process']_vars
    /\ [][HandledStep("i") => more_information']_vars
    /\ [][(FrameDrawn /\ current_tab \notin {NetworkTab, ProcessesTab}) => frame'.popups = {}]_vars
    /\ [][(FrameDrawn /\ current_tab = NetworkTab /\ ~more_information) => frame'.popups = {}]_vars
    /\ [][(\E e \in NavigationEvents : HandledStep(e)) =>
            UNCHANGED <<kill_current_process, more_information>>]_vars
    /\ [][(FrameDrawn /\ current_tab = ProcessesTab /\ kill_current_process) =>
            frame'.popups \cap {"KillProcess", "NoSelected"} # {}]_vars
    /\ [][(FrameDrawn /\ current_tab = NetworkTab /\ more_information) =>
            "MoreInformation" \in frame'.popups]_vars
    /\ [][(kill_current_process /\ ~kill_current_process') =>
            \E e \in {"x", "y", "n"} : HandledStep(e)]_vars
    /\ [][(more_information /\ ~more_information') => HandledStep("x")]_vars

\* C38: a sort key writes one ordering at most and leaves the other as it was:
\* m/M, s/S, r/R write the process ordering and t/T the component ordering on
\* every tab; c/C writes the process ordering on the Processes tab, the component
\* ordering on the Components tab and neither on any other tab.
C38_SortKeyWritesOneOrdering ==
    [][LET ProcessFieldOf(e) ==
               CASE e \in {"m", "M"} -> "MemoryUsage"
                 [] e \in {"s", "S"} -> "SwapUsage"
                 [] e \in {"r", "R"} -> "Runtime"
       IN \A e \in SortKeys : HandledStep(e) =>
            /\ e \in {"m", "M", "s", "S", "r", "R"} =>
                  /\ process_ordering'.field = ProcessFieldOf(e)
                  /\ UNCHANGED component_ordering
            /\ e \in {"t", "T"} =>
                  /\ component_ordering'.field = "Temperature"
                  /\ UNCHANGED process_ordering
            /\ (e \in {"c", "C"} /\ current_tab = ProcessesTab) =>
                  /\ process_ordering'.field = "CpuUsage"
                  /\ UNCHANGED component_ordering
            /\ (e \in {"c", "C"} /\ current_tab = ComponentsTab) =>
                  /\ component_ordering'.field = "Critical"
                  /\ UNCHANGED process_ordering
            /\ (e \in {"c", "C"} /\ current_tab \notin {ProcessesTab, ComponentsTab}) =>
                  UNCHANGED <<process_ordering, component_ordering>>
            /\ UNCHANGED current_tab]_vars

C38_Witness ==
    /\ mainPc = "draw"
    /\ lastEvent = "c"
    /\ current_tab = ComponentsTab
    /\ component_ordering = [field |-> "Critical", ord |-> "Ascending"]
    /\ process_ordering = [field |-> "Runtime", ord |-> "Descending"]

\* C39: while every probe reports the same cores, the RAM and swap series have
\* the same length and the same times, the series of every core has one sample
\* more, and its later samples were taken at the times of the RAM samples.
C39_MemorySeriesOneShort ==
    /\ Len(ram_dataset) = Len(swap_dataset)
    /\ \A i \in 1..Len(ram_dataset) : ram_dataset[i][1] = swap_dataset[i][1]
    /\ \A k \in DOMAIN cpu_dataset :
          /\ Len(cpu_dataset[k]) = Len(ram_dataset) + 1
          /\ \A i \in 1..Len(ram_dataset) : cpu_dataset[k][i + 1][1] = ram_dataset[i][1]
    /\ DOMAIN cpu_dataset = {} => ram_dataset = <<>>

C39_Witness ==
    /\ mainPc = "poll"
    /\ Len(ram_dataset) = 2
    /\ Len(swap_dataset) = 2
    /\ DOMAIN cpu_dataset = { CpuKey(CoreList[i]) : i \in 1..NumCores }
    /\ \A k \in DOMAIN cpu_dataset : Len(cpu_dataset[k]) = 3
    /\ ram_dataset[1][1] < ram_dataset[2][1]

\* C40: the scales computed at start are the total capacities divided by 1000
\* as often as it takes to come below 1000, then floored: whole numbers from 0
\* to 999.
C40_ScaleBelowThousand ==
    LET ScaledBelowThousand(total, digits) ==
            \E k \in 0..(MaxScalePower + 1) :
               /\ digits = total \div Power1000(k)
               /\ total < 1000 * Power1000(k)
               /\ k > 0 => total >= Power1000(k)
    IN /\ IsSome(ram_important_digits) =>
             /\ Get(ram_important_digits) \in 0..999
             /\ ScaledBelowThousand(memory.total_memory, Get(ram_important_digits))
       /\ IsSome(swap_important_digits) =>
             /\ Get(swap_important_digits) \in 0..999
             /\ ScaledBelowThousand(memory.total_swap, Get(swap_important_digits))

=============================================================================
